---- MODULE Spec2Model ----
(***************************************************************************)
(* Model of the beamr-economy cache/merge engine (lib/dataCache), the flow *)
(* graph builder (lib/graph) and the FlowGraph component's polling loop.   *)
(*                                                                         *)
(* JavaScript objects are modelled by reference where the code mutates     *)
(* them: a pool collection is a sequence of references into a heap of pool *)
(* records, so that Array.prototype.sort (which sorts in place) and the    *)
(* sharing of pool objects between collections are visible.                *)
(***************************************************************************)
EXTENDS Integers, Sequences, FiniteSets, Bags, TLC

(***************************************************************************)
(* Bounds of the model.                                                    *)
(***************************************************************************)
MaxPools == 2
MaxMembers == 2

(***************************************************************************)
(* Strings.  Addresses and ids are hex strings that may differ in letter   *)
(* case; String.prototype.toLowerCase is modelled over the strings of the  *)
(* model by the table of their upper/mixed-case spellings.                 *)
(***************************************************************************)
Undefined == "<undefined>"

CasePairs ==
  { <<"0xP1", "0xp1">>, <<"0xP2", "0xp2">>,
    <<"0xAD", "0xad">>, <<"0xAA", "0xaa">>, <<"0xBB", "0xbb">>,
    <<"0xCC", "0xcc">>, <<"0xDD", "0xdd">>,
    <<"0xT1", "0xt1">>, <<"0xT2", "0xt2">>,
    <<"HTTPS://SUBGRAPH/ONE", "https://subgraph/one">> }

ToLowerCase(s) ==
  IF \E p \in CasePairs : p[1] = s
    THEN (CHOOSE p \in CasePairs : p[1] = s)[2]
    ELSE s

\* a.admin?.toLowerCase(): undefined stays undefined
OptToLowerCase(s) == IF s = Undefined THEN Undefined ELSE ToLowerCase(s)

normalizeAddress(address) == ToLowerCase(address)

(***************************************************************************)
(* String.prototype.localeCompare on the entity ids of the model: the ids  *)
(* are listed in collation order, the result is the sign of the distance.  *)
(***************************************************************************)
IdOrder == <<"d1", "d2", "d3", "m1", "m2", "m3">>

IdRank(s) == CHOOSE i \in DOMAIN IdOrder : IdOrder[i] = s

LocaleCompare(x, y) ==
  IF IdRank(x) < IdRank(y) THEN -1
  ELSE IF IdRank(x) > IdRank(y) THEN 1
  ELSE 0

(***************************************************************************)
(* Optional arrays (poolDistributors?: PoolDistributor[]).                 *)
(***************************************************************************)
None == <<>>
Some(v) == <<v>>
OrEmpty(opt) == IF opt = None THEN <<>> ELSE opt[1]

(***************************************************************************)
(* Array.prototype.sort((x, y) => x.id.localeCompare(y.id)): a stable sort *)
(* by id.                                                                  *)
(***************************************************************************)
RECURSIVE InsertById(_, _)
InsertById(x, s) ==
  IF s = <<>> THEN <<x>>
  ELSE IF LocaleCompare(x.id, Head(s).id) < 0 THEN <<x>> \o s
  ELSE <<Head(s)>> \o InsertById(x, Tail(s))

RECURSIVE SortById(_)
SortById(s) ==
  IF s = <<>> THEN <<>>
  ELSE InsertById(s[Len(s)], SortById(SubSeq(s, 1, Len(s) - 1)))

(***************************************************************************)
(* Entities (src/unnamed/part_002: PoolMember, PoolDistributor, Pool).     *)
(* isConnected?: boolean is "true", "false" or Undefined.                  *)
(***************************************************************************)
Member(id, account, units, isConnected) ==
  [id |-> id, account |-> account, units |-> units, isConnected |-> isConnected]

Distributor(id, account, flowRate) ==
  [id |-> id, account |-> account, flowRate |-> flowRate]

Pool(id, admin, totalUnits, flowRate, perUnitFlowRate, members, distributors) ==
  [id |-> id, admin |-> admin, totalUnits |-> totalUnits, flowRate |-> flowRate,
   perUnitFlowRate |-> perUnitFlowRate, poolMembers |-> members,
   poolDistributors |-> distributors]

(***************************************************************************)
(* lib/dataCache: equality of pools.                                       *)
(***************************************************************************)
poolMembersEqual(a, b) ==
  /\ a.id = b.id
  /\ ToLowerCase(a.account) = ToLowerCase(b.account)
  /\ a.units = b.units
  /\ a.isConnected = b.isConnected

poolDistributorsEqual(a, b) ==
  /\ a.id = b.id
  /\ ToLowerCase(a.account) = ToLowerCase(b.account)
  /\ a.flowRate = b.flowRate

\* Mutant of SortMembersInPlace: the member lists are compared in the order
\* they come in (the sort is left out).
SortMembersInPlace_noSort(heap, r) == heap

\* (a.poolMembers ?? []).sort(...): sorts the pool's own array in place
SortMembersInPlace(heap, r) ==
  [heap EXCEPT ![r].poolMembers = SortById(@)]

SortDistributorsInPlace(heap, r) ==
  IF heap[r].poolDistributors = None THEN heap
  ELSE [heap EXCEPT ![r].poolDistributors = Some(SortById(@[1]))]

\* the length check and the element-wise loop over the sorted member lists
MembersSameInOrder(xs, ys) ==
  /\ Len(xs) = Len(ys)
  /\ \A i \in 1..Len(xs) : poolMembersEqual(xs[i], ys[i])

DistributorsSameInOrder(xs, ys) ==
  /\ Len(xs) = Len(ys)
  /\ \A i \in 1..Len(xs) : poolDistributorsEqual(xs[i], ys[i])

\* poolsEqual(a, b) on the objects heap[ra], heap[rb]: the result and the
\* heap as the call leaves it.
poolsEqual(heap, ra, rb) ==
  LET a == heap[ra]
      b == heap[rb]
  IN
  IF ToLowerCase(a.id) # ToLowerCase(b.id) THEN [res |-> FALSE, heap |-> heap]
  ELSE IF OptToLowerCase(a.admin) # OptToLowerCase(b.admin) THEN [res |-> FALSE, heap |-> heap]
  ELSE IF a.totalUnits # b.totalUnits THEN [res |-> FALSE, heap |-> heap]
  ELSE IF a.flowRate # b.flowRate THEN [res |-> FALSE, heap |-> heap]
  ELSE IF a.perUnitFlowRate # b.perUnitFlowRate THEN [res |-> FALSE, heap |-> heap]
  ELSE
    LET h1 == SortMembersInPlace(SortMembersInPlace(heap, ra), rb)
        aMembers == h1[ra].poolMembers
        bMembers == h1[rb].poolMembers
    IN
    IF ~MembersSameInOrder(aMembers, bMembers) THEN [res |-> FALSE, heap |-> h1]
    ELSE
      LET h2 == SortDistributorsInPlace(SortDistributorsInPlace(h1, ra), rb)
          aDistributors == OrEmpty(h2[ra].poolDistributors)
          bDistributors == OrEmpty(h2[rb].poolDistributors)
      IN
      [res |-> DistributorsSameInOrder(aDistributors, bDistributors),
       heap |-> h2]

(***************************************************************************)
(* lib/dataCache: merge and change detection.  existing and incoming are   *)
(* sequences of references into heap (data.pools).                         *)
(***************************************************************************)
NoRef == 0

\* Mutant of ExistingPoolMapGet: the map is keyed by the id as written,
\* existingPoolMap.set(pool.id, pool), while it is read by the lower-cased id.
ExistingPoolMapGet_rawKey(heap, existing, key) ==
  LET hits == {i \in DOMAIN existing : heap[existing[i]].id = key}
  IN IF hits = {} THEN NoRef
     ELSE existing[CHOOSE i \in hits : \A j \in hits : j <= i]

\* existingPoolMap.get(key): the map is filled in order of existing.pools, a
\* later pool with the same lower-cased id overwrites an earlier one.
ExistingPoolMapGet(heap, existing, key) ==
  LET hits == {i \in DOMAIN existing : ToLowerCase(heap[existing[i]].id) = key}
  IN IF hits = {} THEN NoRef
     ELSE existing[CHOOSE i \in hits : \A j \in hits : j <= i]

\* Mutant of FindIndex: the changed pool is always written to the front.
FindIndex_front(heap, mergedPools, poolId) ==
  IF mergedPools = <<>> THEN 0 ELSE 1

\* mergedPools.findIndex((p) => p.id.toLowerCase() === poolId); 0 for -1
FindIndex(heap, mergedPools, poolId) ==
  LET hits == {i \in DOMAIN mergedPools : ToLowerCase(heap[mergedPools[i]].id) = poolId}
  IN IF hits = {} THEN 0
     ELSE CHOOSE i \in hits : \A j \in hits : i <= j

\* the loop "for (const incomingPool of incoming.pools)" from its i-th pool on
RECURSIVE MergeLoop(_, _, _, _, _)
MergeLoop(heap, existing, incoming, i, mergedPools) ==
  IF i > Len(incoming) THEN [pools |-> mergedPools, heap |-> heap]
  ELSE
    LET incomingPool == incoming[i]
        poolId == ToLowerCase(heap[incomingPool].id)
        existingPool == ExistingPoolMapGet(heap, existing, poolId)
    IN
    IF existingPool = NoRef
      THEN MergeLoop(heap, existing, incoming, i + 1, Append(mergedPools, incomingPool))
      ELSE
        LET eq == poolsEqual(heap, existingPool, incomingPool)
            index == FindIndex(eq.heap, mergedPools, poolId)
        IN
        IF ~eq.res /\ index >= 1
          THEN MergeLoop(eq.heap, existing, incoming, i + 1,
                         [mergedPools EXCEPT ![index] = incomingPool])
          ELSE MergeLoop(eq.heap, existing, incoming, i + 1, mergedPools)

\* Mutant of mergeBeamrData: mergedPools starts empty instead of as a copy of
\* existing.pools, so only pools of incoming get into the result.
mergeBeamrData_startEmpty(heap, existing, incoming) ==
  MergeLoop(heap, existing, incoming, 1, <<>>)

\* mergeBeamrData(existing, incoming): the merged pools (references) and the
\* heap as the call leaves it
mergeBeamrData(heap, existing, incoming) ==
  MergeLoop(heap, existing, incoming, 1, existing)

RECURSIVE ChangesLoop(_, _, _, _)
ChangesLoop(heap, existing, incoming, i) ==
  IF i > Len(incoming) THEN [res |-> FALSE, heap |-> heap]
  ELSE
    LET incomingPool == incoming[i]
        poolId == ToLowerCase(heap[incomingPool].id)
        existingPool == ExistingPoolMapGet(heap, existing, poolId)
    IN
    IF existingPool = NoRef THEN [res |-> TRUE, heap |-> heap]
    ELSE
      LET eq == poolsEqual(heap, existingPool, incomingPool)
      IN IF ~eq.res THEN [res |-> TRUE, heap |-> eq.heap]
         ELSE ChangesLoop(eq.heap, existing, incoming, i + 1)

\* Mutant of hasBeamrDataChanges: a different number of pools counts as a
\* change, so a pool that disappeared upstream is reported.
hasBeamrDataChanges_countsRemoved(heap, existing, incoming) ==
  IF Len(existing) # Len(incoming) THEN [res |-> TRUE, heap |-> heap]
  ELSE ChangesLoop(heap, existing, incoming, 1)

\* hasBeamrDataChanges(existing, incoming)
hasBeamrDataChanges(heap, existing, incoming) ==
  ChangesLoop(heap, existing, incoming, 1)

(***************************************************************************)
(* Inputs of the merge engine: pool collections as the subgraph delivers   *)
(* them (entity ids are primary keys: no two pools of one response share   *)
(* an id, no two members or distributors of one pool share an id).         *)
(***************************************************************************)
mA == Member("m1", "0xaa", "30", "true")
mB == Member("m2", "0xbb", "70", "true")
dA == Distributor("d1", "0xdd", "1000")
dB == Distributor("d2", "0xcc", "1000")

PoolUnsorted(id) == Pool(id, "0xad", "100", "1000", "10", <<mB, mA>>, Some(<<dB, dA>>))
PoolSorted(id)   == Pool(id, "0xad", "100", "1000", "10", <<mA, mB>>, Some(<<dA, dB>>))
PoolChanged(id)  == Pool(id, "0xad", "100", "2000", "20", <<mA, mB>>, Some(<<dA, dB>>))

MergePoolUniverse ==
  { PoolUnsorted("0xp1"), PoolSorted("0xp1"), PoolChanged("0xp1"), PoolSorted("0xP1"),
    PoolUnsorted("0xp2"), PoolChanged("0xp2"),
    PoolUnsorted("0xp3") }

UniqueIds(pools) ==
  \A i, j \in DOMAIN pools :
    i # j => ToLowerCase(pools[i].id) # ToLowerCase(pools[j].id)

Collections(universe) ==
  {s \in UNION {[1..k -> universe] : k \in 0..MaxPools} : UniqueIds(s)}

Refs(from, n) == [k \in 1..n |-> from + k]

\* the pool values a collection of references denotes
Deref(heap, refs) == [k \in DOMAIN refs |-> heap[refs[k]]]

PoolIds(pools) == {ToLowerCase(pools[k].id) : k \in DOMAIN pools}

(***************************************************************************)
(* lib/graph: big-integer strings.  BigInt(string) is modelled over the    *)
(* strings of the model: the table lists the strings BigInt accepts, with  *)
(* their values (the empty string is 0n); every other string ("abc",       *)
(* "1.5") makes BigInt throw a SyntaxError.                                *)
(***************************************************************************)
BigIntTable ==
  { <<"", 0>>, <<"0", 0>>, <<"10", 10>>, <<"20", 20>>, <<"30", 30>>, <<"50", 50>>,
    <<"70", 70>>, <<"100", 100>>, <<"200", 200>>, <<"1000", 1000>>,
    <<"2000", 2000>>, <<"-5", -5>> }

BigIntParses(s) == \E e \in BigIntTable : e[1] = s

BigIntOf(s) == (CHOOSE e \in BigIntTable : e[1] = s)[2]

\* try { return BigInt(value ?? "0") } catch { return 0n }
safeBigInt(value) ==
  LET v == IF value = Undefined THEN "0" ELSE value
  IN IF BigIntParses(v) THEN BigIntOf(v) ELSE 0

\* pool.poolMembers?.reduce((sum, member) => sum + safeBigInt(member.units), 0n)
RECURSIVE SumMemberUnits(_)
SumMemberUnits(ms) ==
  IF ms = <<>> THEN 0
  ELSE safeBigInt(Head(ms).units) + SumMemberUnits(Tail(ms))

\* Mutant of computePerUnitFlowRate: totalUnits is not replaced by the sum of
\* the members' units when it is not positive.
computePerUnitFlowRate_noFallback(pool) ==
  LET perUnitFlowRate == safeBigInt(pool.perUnitFlowRate)
      flowRate == safeBigInt(pool.flowRate)
      totalUnits == safeBigInt(pool.totalUnits)
  IN IF perUnitFlowRate > 0 THEN perUnitFlowRate
     ELSE IF totalUnits > 0 /\ flowRate > 0 THEN flowRate \div totalUnits
     ELSE perUnitFlowRate

\* computePerUnitFlowRate(pool); BigInt division of two positive values is
\* the integer quotient
computePerUnitFlowRate(pool) ==
  LET perUnitFlowRate == safeBigInt(pool.perUnitFlowRate)
      flowRate == safeBigInt(pool.flowRate)
      declared == safeBigInt(pool.totalUnits)
      totalUnits == IF declared <= 0 THEN SumMemberUnits(pool.poolMembers) ELSE declared
  IN IF perUnitFlowRate > 0 THEN perUnitFlowRate
     ELSE IF totalUnits > 0 /\ flowRate > 0 THEN flowRate \div totalUnits
     ELSE perUnitFlowRate

(***************************************************************************)
(* lib/graph: buildGraphElements, up to the end of its edge pass.          *)
(***************************************************************************)
\* `account:${address}`
makeAccountNodeId(address) == <<"account", address>>

RECURSIVE Concat(_)
Concat(ss) == IF ss = <<>> THEN <<>> ELSE Head(ss) \o Concat(Tail(ss))

\* perUnitFlowRateByPool.get(poolAddress) ?? 0n: the first pass sets the map
\* pool by pool, a later pool of the same address overwrites an earlier one
PerUnitFlowRateByPool(pools, poolAddress) ==
  LET hits == {i \in DOMAIN pools : normalizeAddress(pools[i].id) = poolAddress}
  IN IF hits = {} THEN 0
     ELSE computePerUnitFlowRate(pools[CHOOSE i \in hits : \A j \in hits : j <= i])

\* the identifiers in scope where the edge object is built (lines 656-696)
EdgeScope ==
  { "data", "nodes", "edges", "userAddresses", "nodeIdSet", "perUnitFlowRateByPool",
    "poolInfoByDistributor", "decimals", "incomingFlowsByUser", "outgoingFlowsByUser",
    "edgeCountByPair", "ensureUserNode", "pool", "poolAddress", "poolDistributors",
    "perUnitFlowRate", "canComputeFlows", "member", "units", "memberFlowRate",
    "memberAddress", "distributor", "distributorAddress", "source", "target",
    "pairKey", "edgeIndex", "curvature", "flowRateStr", "strokeWidth" }

\* reading an identifier that no enclosing scope declares throws a
\* ReferenceError
Resolves(name) == name \in EdgeScope

\* let units = 0n; try { units = BigInt(member.units ?? "0") } catch { units = 0n }
MemberUnitsValue(member) == safeBigInt(member.units)

\* Mutant of MemberPasses: isConnected is not looked at.
MemberPasses_ignoreConnected(member) ==
  MemberUnitsValue(member) > 0

\* member.isConnected === false  =>  continue;  units <= 0n  =>  continue
MemberPasses(member) ==
  /\ member.isConnected # "false"
  /\ MemberUnitsValue(member) > 0

\* Mutant of SkipSelfEdge: no pair is skipped.
SkipSelfEdge_never(source, target) == FALSE

\* if (source === target) continue;
SkipSelfEdge(source, target) == source = target

\* the edges the inner loop builds for one member of one pool, one per
\* distributor, self-edges skipped; data.units reads `memberUnits`, and
\* thrown says that building the edge object threw
MemberEdges(pools, pool, member) ==
  LET poolAddress == normalizeAddress(pool.id)
      perUnitFlowRate == PerUnitFlowRateByPool(pools, poolAddress)
      canComputeFlows == perUnitFlowRate > 0
      units == MemberUnitsValue(member)
      memberFlowRate == IF canComputeFlows THEN perUnitFlowRate * units ELSE 0
      memberAddress == normalizeAddress(member.account)
      poolDistributors == OrEmpty(pool.poolDistributors)
      EdgeFor(distributor) ==
        LET distributorAddress == normalizeAddress(distributor.account)
            source == makeAccountNodeId(distributorAddress)
            target == makeAccountNodeId(memberAddress)
        IN IF SkipSelfEdge(source, target) THEN <<>>
           ELSE << [ id |-> <<"distribution", poolAddress, distributorAddress, memberAddress>>,
                     source |-> source,
                     target |-> target,
                     dashed |-> ~canComputeFlows,
                     flowRate |-> memberFlowRate,
                     units |-> units,
                     thrown |-> ~Resolves("memberUnits") ] >>
  IN IF ~MemberPasses(member) THEN <<>>
     ELSE Concat([d \in DOMAIN poolDistributors |-> EdgeFor(poolDistributors[d])])

PoolEdges(pools, pool) ==
  Concat([m \in DOMAIN pool.poolMembers |-> MemberEdges(pools, pool, pool.poolMembers[m])])

\* every edge of the edge pass, in the order the loops reach them
AllEdges(pools) == Concat([p \in DOMAIN pools |-> PoolEdges(pools, pools[p])])

\* the addresses passed to ensureUserNode, in call order: per pool its
\* distributors, then each member that passes
PoolNodeCalls(pool) ==
  LET ds == OrEmpty(pool.poolDistributors)
      ms == pool.poolMembers
  IN [d \in DOMAIN ds |-> normalizeAddress(ds[d].account)]
     \o Concat([m \in DOMAIN ms |->
                  IF MemberPasses(ms[m]) THEN <<normalizeAddress(ms[m].account)>> ELSE <<>>])

\* nodes.push unless nodeIdSet.has(nodeId)
RECURSIVE EnsureUserNodes(_, _)
EnsureUserNodes(nodes, calls) ==
  IF calls = <<>> THEN nodes
  ELSE IF \E k \in DOMAIN nodes : nodes[k] = makeAccountNodeId(Head(calls))
    THEN EnsureUserNodes(nodes, Tail(calls))
    ELSE EnsureUserNodes(Append(nodes, makeAccountNodeId(Head(calls))), Tail(calls))

AllNodes(pools) ==
  EnsureUserNodes(<<>>, Concat([p \in DOMAIN pools |-> PoolNodeCalls(pools[p])]))

\* curvature = edgeIndex % 2 === 0 ? 1.0 : -1.0, edgeIndex counting the
\* earlier edges of the same source-target pair
Curvature(edges, k) ==
  LET edgeIndex == Cardinality({j \in 1..(k - 1) :
                      edges[j].source = edges[k].source /\ edges[j].target = edges[k].target})
  IN IF edgeIndex % 2 = 0 THEN 1 ELSE -1


\* poolInfo of the first pass (lines 573-597), without the two labels that
\* formatFlowRate derives from flowRate and perUnitFlowRate
PoolInfo(pool) ==
  [ address |-> normalizeAddress(pool.id),
    totalUnits |-> IF pool.totalUnits = Undefined THEN "0" ELSE pool.totalUnits,
    flowRate |-> safeBigInt(pool.flowRate),
    memberCount |-> Cardinality({m \in DOMAIN pool.poolMembers :
                                   MemberPasses(pool.poolMembers[m])}) ]

\* poolInfoByDistributor after the first pass (lines 599-604): one entry
\* per pool and distributor record of the address, in order of data.pools
PoolInfoByDistributor(pools, address) ==
  Concat([p \in DOMAIN pools |->
    LET ds == OrEmpty(pools[p].poolDistributors)
    IN Concat([d \in DOMAIN ds |->
         IF normalizeAddress(ds[d].account) = address
           THEN <<PoolInfo(pools[p])>> ELSE <<>>])])

\* Mutant of DistributedPools: only the first pool of the distributor is
\* listed.
DistributedPools_firstOnly(pools, address) ==
  IF PoolInfoByDistributor(pools, address) = <<>> THEN Undefined
  ELSE <<Head(PoolInfoByDistributor(pools, address))>>

\* distributedPools of ensureUserNode (line 611): poolInfoByDistributor
\* .get(normalized), read when the node is created, after the first pass
\* has gone through all pools; undefined for an address that distributes
\* in no pool
DistributedPools(pools, address) ==
  IF PoolInfoByDistributor(pools, address) = <<>> THEN Undefined
  ELSE PoolInfoByDistributor(pools, address)

\* the synchronous part of buildGraphElements(data): the first edge object
\* that is built throws, which rejects the promise the function returns
EdgePass(pools) ==
  LET edges == AllEdges(pools)
      nodes == AllNodes(pools)
  IN IF \E k \in DOMAIN edges : edges[k].thrown
       THEN [status |-> "rejected", nodes |-> <<>>, edges |-> <<>>,
             distributedPools |-> <<>>]
       ELSE [status |-> "built", nodes |-> nodes, edges |-> edges,
             distributedPools |->
               [k \in DOMAIN nodes |-> DistributedPools(pools, nodes[k][2])]]

(***************************************************************************)
(* lib/graph: buildGraphElements after its edge pass: flow statistics,     *)
(* identity resolution raced against a timer, node data and layout.        *)
(***************************************************************************)
EmptyMap == [a \in {} |-> 0]

MapGet(map, key, default) == IF key \in DOMAIN map THEN map[key] ELSE default

MapSet(map, key, value) ==
  [k \in DOMAIN map \cup {key} |-> IF k = key THEN value ELSE map[k]]

\* one side of the statistics kept per user while edges are created:
\* totalFlowRate and the Set of counterparties
NoFlows == [totalFlowRate |-> 0, parties |-> {}]

\* incomingFlowsByUser and outgoingFlowsByUser after the edges 1..k were
\* created: each edge adds its flow rate and its sender to the receiver's
\* entry, and its flow rate and its receiver to the sender's entry
RECURSIVE FlowStatsLoop(_, _, _)
FlowStatsLoop(edges, k, maps) ==
  IF k > Len(edges) THEN maps
  ELSE
    LET memberAddress == edges[k].target[2]
        distributorAddress == edges[k].source[2]
        memberIncoming == MapGet(maps.incoming, memberAddress, NoFlows)
        distributorOutgoing == MapGet(maps.outgoing, distributorAddress, NoFlows)
    IN FlowStatsLoop(edges, k + 1,
         [ incoming |-> MapSet(maps.incoming, memberAddress,
               [ totalFlowRate |-> memberIncoming.totalFlowRate + edges[k].flowRate,
                 parties |-> memberIncoming.parties \cup {distributorAddress} ]),
           outgoing |-> MapSet(maps.outgoing, distributorAddress,
               [ totalFlowRate |-> distributorOutgoing.totalFlowRate + edges[k].flowRate,
                 parties |-> distributorOutgoing.parties \cup {memberAddress} ]) ])

FlowStats(edges) ==
  FlowStatsLoop(edges, 1, [incoming |-> EmptyMap, outgoing |-> EmptyMap])

\* incomingFlows / outgoingFlows of a node: undefined when the user has no
\* entry, else the total and the size of the Set
NoStats == [defined |-> FALSE, totalFlowRate |-> 0, userCount |-> 0]

NodeStats(map, address) ==
  IF address \notin DOMAIN map THEN NoStats
  ELSE [ defined |-> TRUE,
         totalFlowRate |-> map[address].totalFlowRate,
         userCount |-> Cardinality(map[address].parties) ]

\* shortenAddress over the addresses of the model:
\* `${a.slice(0, 6)}...${a.slice(-4)}`, and "" for the empty address
ShortForms ==
  { <<"0xaa", "0xaa...0xaa">>, <<"0xbb", "0xbb...0xbb">>,
    <<"0xcc", "0xcc...0xcc">>, <<"0xdd", "0xdd...0xdd">>,
    <<"0xad", "0xad...0xad">> }

shortenAddress(address) ==
  IF address = "" THEN ""
  ELSE (CHOOSE sf \in ShortForms : sf[1] = normalizeAddress(address))[2]

\* a profile of the mapping identity resolution yields
Profile(username, avatarUrl) == [username |-> username, avatarUrl |-> avatarUrl]

\* `@${farcaster}`
AtHandle(farcaster) == <<"@", farcaster>>

\* the loop over nodes after identity resolution (lines 726-750): farcaster
\* and avatarUrl from the profile filed under the node's address, the label
\* `@username` when the username is a non-empty string, the statistics
NodeData(nodeId, distributedPools, profiles, stats) ==
  LET address == nodeId[2]
      hasProfile == address \in DOMAIN profiles
      farcaster == IF hasProfile THEN profiles[address].username ELSE Undefined
      avatarUrl == IF hasProfile THEN profiles[address].avatarUrl ELSE Undefined
  IN [ id |-> nodeId,
       address |-> address,
       distributedPools |-> distributedPools,
       farcaster |-> farcaster,
       avatarUrl |-> avatarUrl,
       label |-> IF farcaster # Undefined /\ farcaster # ""
                   THEN AtHandle(farcaster)
                   ELSE <<shortenAddress(address)>>,
       incomingFlows |-> NodeStats(stats.incoming, address),
       outgoingFlows |-> NodeStats(stats.outgoing, address) ]

\* an entry of the stored position map; ok is false for an entry that the
\* validation of loadNodePositions drops (not an object, x or y not a
\* finite number)
Position(x, y) == [x |-> x, y |-> y]
StoredPosition(nodeId, x, y, ok) == [nodeId |-> nodeId, x |-> x, y |-> y, ok |-> ok]

\* localStorage under NODE_POSITIONS_STORAGE_KEY: nothing, a string that
\* JSON.parse rejects, or an object of entries
StoredPositions(kind, entries) == [kind |-> kind, entries |-> entries]

\* loadNodePositions(): the valid entries, {} when nothing is stored or
\* JSON.parse throws
loadNodePositions(stored) ==
  IF stored.kind # "object" THEN EmptyMap
  ELSE LET valid == {e \in stored.entries : e.ok}
       IN [id \in {e.nodeId : e \in valid} |->
             LET e == CHOOSE e \in valid : e.nodeId = id
             IN Position(e.x, e.y)]

\* Mutant of layoutNodes: every node is placed afresh.
layoutNodes_allRandom(nodes, stored, random) ==
  [k \in DOMAIN nodes |-> random[k]]

\* layoutNodes(nodes, edges): the position given to each node; random[k] is
\* what generateRandomPosition returns if it is called for node k; every
\* node the builder makes has type "user"
layoutNodes(nodes, stored, random) ==
  LET savedPositions == loadNodePositions(stored)
  IN [k \in DOMAIN nodes |->
        IF nodes[k].id \in DOMAIN savedPositions
          THEN savedPositions[nodes[k].id]
          ELSE random[k]]

\* Number(import.meta.env.VITE_FARCASTER_TIMEOUT_MS) over the strings of the
\* model; a string that is no number gives NaN
NumberTable == { <<"2000", 2000>>, <<"0", 0>>, <<"-5", -5>> }

DEFAULT_FARCASTER_TIMEOUT_MS == 4000

\* Mutant of TimeoutMs: the timer is set to twice the time.
TimeoutMs_doubled(env) ==
  IF env = "2000" THEN 2 * 2000 ELSE 2 * DEFAULT_FARCASTER_TIMEOUT_MS

\* resolveFarcasterWithTimeout: timeoutMs
TimeoutMs(env) ==
  IF env = Undefined THEN DEFAULT_FARCASTER_TIMEOUT_MS
  ELSE IF \E nt \in NumberTable : nt[1] = env /\ nt[2] > 0
    THEN (CHOOSE nt \in NumberTable : nt[1] = env)[2]
    ELSE DEFAULT_FARCASTER_TIMEOUT_MS

\* buildGraphElements after its await (lines 726-754): the nodes it returns
FinishBuild(result, profiles, stored, random) ==
  LET stats == FlowStats(result.edges)
      data == [k \in DOMAIN result.nodes |->
                NodeData(result.nodes[k], result.distributedPools[k], profiles, stats)]
      position == layoutNodes(data, stored, random)
  IN [k \in DOMAIN data |->
        [node |-> data[k], position |-> position[k]]]

(***************************************************************************)
(* lib/farcaster: the identity client.                                     *)
(***************************************************************************)
\* FARCASTER_CACHE_TTL_MS (1000 * 60 * 60 * 24 * 30), counted in seconds
FARCASTER_CACHE_TTL == 60 * 60 * 24 * 30

DEFAULT_BATCH_SIZE == 100

\* chunk(items, size)
RECURSIVE chunk(_, _)
chunk(items, size) ==
  IF items = <<>> THEN <<>>
  ELSE IF Len(items) <= size THEN <<items>>
  ELSE <<SubSeq(items, 1, size)>> \o chunk(SubSeq(items, size + 1, Len(items)), size)

\* Number(import.meta.env.VITE_NEYNAR_BATCH_SIZE ?? DEFAULT_BATCH_SIZE), and
\* 100 when that is not finite
BatchSize(env) ==
  IF env = Undefined THEN DEFAULT_BATCH_SIZE
  ELSE IF env = "1" THEN 1
  ELSE 100

\* Array.from(new Set(addresses.map(toLowerCase))): first occurrences, in order
RECURSIVE UniqueLower(_, _)
UniqueLower(addresses, seen) ==
  IF addresses = <<>> THEN <<>>
  ELSE LET a == ToLowerCase(Head(addresses))
       IN IF a \in seen THEN UniqueLower(Tail(addresses), seen)
          ELSE <<a>> \o UniqueLower(Tail(addresses), seen \cup {a})

\* localStorage under FARCASTER_CACHE_KEY: nothing, a string JSON.parse
\* rejects, or { updatedAt, profiles }
CachedProfiles(kind, updatedAt, profiles) ==
  [kind |-> kind, updatedAt |-> updatedAt, profiles |-> profiles]

\* readProfileCache() ?? {}
readProfileCache(stored, now) ==
  IF stored.kind # "object" THEN EmptyMap
  ELSE IF stored.updatedAt = 0 THEN EmptyMap
  ELSE IF now - stored.updatedAt > FARCASTER_CACHE_TTL THEN EmptyMap
  ELSE stored.profiles

\* writeProfileCache(profiles); a failing setItem is ignored
writeProfileCache(stored, profiles, now, fails) ==
  IF fails THEN stored ELSE CachedProfiles("object", now, profiles)

\* entries of a payload after normalizePayloadEntries: { address, user } of
\* the address-keyed formats, a bare user of the legacy list, or an entry
\* that has a user and an address that is no string
KeyedEntry(address, profile, addresses) ==
  [kind |-> "keyed", address |-> address, profile |-> profile, addresses |-> addresses]

UserEntry(profile, addresses) ==
  [kind |-> "user", address |-> Undefined, profile |-> profile, addresses |-> addresses]

MalformedEntry ==
  [kind |-> "malformed", address |-> Undefined, profile |-> Profile("mallory", Undefined),
   addresses |-> <<>>]

\* username || avatarUrl
HasIdentity(profile) ==
  \/ profile.username # Undefined /\ profile.username # ""
  \/ profile.avatarUrl # Undefined /\ profile.avatarUrl # ""

RECURSIVE MapSetAll(_, _, _)
MapSetAll(map, keys, value) ==
  IF keys = <<>> THEN map
  ELSE MapSetAll(MapSet(map, ToLowerCase(Head(keys)), value), Tail(keys), value)

\* the loop over the entries of the batch results (lines 311-335, 383-406):
\* the mapping it leaves and whether it threw; an entry whose address is no
\* string throws at entry.address.toLowerCase()
RECURSIVE ApplyEntries(_, _)
ApplyEntries(mapping, entries) ==
  IF entries = <<>> THEN [mapping |-> mapping, thrown |-> FALSE]
  ELSE
    LET entry == Head(entries)
    IN IF ~HasIdentity(entry.profile) THEN ApplyEntries(mapping, Tail(entries))
       ELSE IF entry.kind = "malformed" THEN [mapping |-> mapping, thrown |-> TRUE]
       ELSE IF entry.kind = "keyed"
         THEN ApplyEntries(MapSet(mapping, ToLowerCase(entry.address), entry.profile),
                           Tail(entries))
         ELSE ApplyEntries(MapSetAll(mapping, entry.addresses, entry.profile),
                           Tail(entries))

\* Mutant of Missing: nothing is filtered out.
Missing_all(addresses, mapping) == addresses

\* remaining.filter((address) => !mapping[address])
RECURSIVE Missing(_, _)
Missing(addresses, mapping) ==
  IF addresses = <<>> THEN <<>>
  ELSE IF Head(addresses) \in DOMAIN mapping THEN Missing(Tail(addresses), mapping)
  ELSE <<Head(addresses)>> \o Missing(Tail(addresses), mapping)

(***************************************************************************)
(* lib/dataCache: the persisted snapshot.  JSON.stringify leaves out the   *)
(* properties whose value is undefined; a property that is missing reads   *)
(* as undefined after JSON.parse.                                          *)
(***************************************************************************)
JsonProps(pairs) == {kv \in pairs : kv[2] # Undefined}

JsonGet(obj, key) ==
  IF \E kv \in obj : kv[1] = key
    THEN (CHOOSE kv \in obj : kv[1] = key)[2]
    ELSE Undefined

JsonMember(m) ==
  JsonProps({ <<"id", m.id>>, <<"account.id", m.account>>, <<"units", m.units>>,
              <<"isConnected", m.isConnected>> })

ParseMember(j) ==
  Member(JsonGet(j, "id"), JsonGet(j, "account.id"), JsonGet(j, "units"),
         JsonGet(j, "isConnected"))

JsonDistributor(d) ==
  JsonProps({ <<"id", d.id>>, <<"account.id", d.account>>, <<"flowRate", d.flowRate>> })

ParseDistributor(j) ==
  Distributor(JsonGet(j, "id"), JsonGet(j, "account.id"), JsonGet(j, "flowRate"))

JsonPool(p) ==
  [ scalars |-> JsonProps({ <<"id", p.id>>, <<"admin", p.admin>>,
                            <<"totalUnits", p.totalUnits>>, <<"flowRate", p.flowRate>>,
                            <<"perUnitFlowRate", p.perUnitFlowRate>> }),
    poolMembers |-> [k \in DOMAIN p.poolMembers |-> JsonMember(p.poolMembers[k])],
    poolDistributors |->
      IF p.poolDistributors = None THEN None
      ELSE Some([k \in DOMAIN p.poolDistributors[1] |->
                   JsonDistributor(p.poolDistributors[1][k])]) ]

ParsePool(j) ==
  Pool(JsonGet(j.scalars, "id"), JsonGet(j.scalars, "admin"),
       JsonGet(j.scalars, "totalUnits"), JsonGet(j.scalars, "flowRate"),
       JsonGet(j.scalars, "perUnitFlowRate"),
       [k \in DOMAIN j.poolMembers |-> ParseMember(j.poolMembers[k])],
       IF j.poolDistributors = None THEN None
       ELSE Some([k \in DOMAIN j.poolDistributors[1] |->
                    ParseDistributor(j.poolDistributors[1][k])]))

JsonPools(pools) == [k \in DOMAIN pools |-> JsonPool(pools[k])]
ParsePools(js) == [k \in DOMAIN js |-> ParsePool(js[k])]

Config(subgraphUrl, tokenAddress) ==
  [subgraphUrl |-> subgraphUrl, tokenAddress |-> tokenAddress]

NoConfig == Config("", "")

\* What localStorage holds under BEAMR_DATA_STORAGE_KEY: nothing, a string
\* that JSON.parse rejects, JSON without a pools array, or a CachedBeamrData
\* written by saveBeamrData.
Item(kind, pools, cachedAt, config) ==
  [kind |-> kind, pools |-> pools, cachedAt |-> cachedAt, config |-> config]

ItemAbsent == Item("absent", <<>>, 0, NoConfig)
ItemUnparsable == Item("unparsable", <<>>, 0, NoConfig)
ItemNoPools == Item("noPools", <<>>, 0, NoConfig)

\* localStorage: the three keys dataCache writes (0: no timestamp stored)
Storage(data, timestamp, config) ==
  [data |-> data, timestamp |-> timestamp, config |-> config]

\* the value loadCachedBeamrData returns: null, or { pools, poolDistributions: [] }
Null == [found |-> FALSE, pools |-> <<>>]
Data(pools) == [found |-> TRUE, pools |-> pools]

\* Mutant of loadCachedBeamrData: the token addresses are compared as they
\* are written.
loadCachedBeamrData_caseSensitive(storage, currentConfig) ==
  LET parsed == storage.data
  IN IF parsed.kind # "snapshot" THEN Null
     ELSE IF \/ parsed.config.subgraphUrl # currentConfig.subgraphUrl
             \/ parsed.config.tokenAddress # currentConfig.tokenAddress
       THEN Null
       ELSE Data(ParsePools(parsed.pools))

\* loadCachedBeamrData(currentConfig)
loadCachedBeamrData(storage, currentConfig) ==
  LET parsed == storage.data
  IN IF parsed.kind = "absent" THEN Null             \* if (!raw) return null
     ELSE IF parsed.kind = "unparsable" THEN Null    \* JSON.parse throws: catch
     ELSE IF parsed.kind = "noPools" THEN Null       \* !Array.isArray(parsed.pools)
     ELSE IF \/ parsed.config.subgraphUrl # currentConfig.subgraphUrl
             \/ ToLowerCase(parsed.config.tokenAddress)
                  # ToLowerCase(currentConfig.tokenAddress)
       THEN Null
       ELSE Data(ParsePools(parsed.pools))

\* saveBeamrData(data, config) at time now; the three setItem calls run in
\* order inside one try block, failAt is the call that throws (quota
\* exceeded), 0 when none does
saveBeamrData(storage, pools, config, now, failAt) ==
  LET cached == Item("snapshot", JsonPools(pools), now, config)
  IN IF failAt = 1 THEN storage
     ELSE IF failAt = 2 THEN [storage EXCEPT !.data = cached]
     ELSE IF failAt = 3 THEN [storage EXCEPT !.data = cached, !.timestamp = now]
     ELSE Storage(cached, now, config)

(***************************************************************************)
(* components/FlowGraph: the pieces of the component's effects.            *)
(***************************************************************************)
NoError == "<null>"

\* Mutant of setCurrentDataUpdater: the fetched collection replaces the
\* collection held.
setCurrentDataUpdater_replace(prev, newPools, storage, config, now, failAt) ==
  [ current |-> Data(newPools),
    storage |-> saveBeamrData(storage, newPools, config, now, failAt),
    saved |-> TRUE ]

\* The updater fetchAndMerge hands to setCurrentData, run on the collection
\* then held: the new value of currentData, localStorage afterwards, and
\* whether saveBeamrData was called.  hasBeamrDataChanges and mergeBeamrData
\* work on the objects of prev and newData themselves.
setCurrentDataUpdater(prev, newPools, storage, config, now, failAt) ==
  IF ~prev.found
    THEN [ current |-> Data(newPools),
           storage |-> saveBeamrData(storage, newPools, config, now, failAt),
           saved |-> TRUE ]
    ELSE
      LET heap == prev.pools \o newPools
          existing == Refs(0, Len(prev.pools))
          incoming == Refs(Len(prev.pools), Len(newPools))
          changes == hasBeamrDataChanges(heap, existing, incoming)
      IN IF changes.res
           THEN LET m == mergeBeamrData(changes.heap, existing, incoming)
                    merged == Deref(m.heap, m.pools)
                IN [ current |-> Data(merged),
                     storage |-> saveBeamrData(storage, merged, config, now, failAt),
                     saved |-> TRUE ]
           ELSE [ current |-> Data(Deref(changes.heap, existing)),
                  storage |-> storage,
                  saved |-> FALSE ]

\* Mutant of catchFetchError: the rejection is swallowed.
catchFetchError_silent(error, live, message) == error

\* fetchAndMerge, catch block: the error state after fetchBeamrData rejected
\* with message; live is the effect's mounted flag
catchFetchError(error, live, message) ==
  IF ~live THEN error ELSE message

\* a buildGraphElements call whose promise is pending; fromCache marks the
\* call of the cache-load effect, whose continuation also ends the initial load
Build(pools, fromCache) == [pools |-> pools, fromCache |-> fromCache]

\* Mutant of RebuildEffect: the effect builds after every render.
RebuildEffect_everyRender(next, isNewObject) ==
  IF next.found THEN {Build(next.pools, FALSE)} ELSE {}

\* the rebuild effect after currentData went from prev to next: it runs when
\* the value is a new object and builds when that is not null
RebuildEffect(next, isNewObject) ==
  IF isNewObject /\ next.found THEN {Build(next.pools, FALSE)} ELSE {}

\* the cache-load effect under config
CacheLoadEffect(storage, config, graph, isInitialLoad) ==
  LET cached == loadCachedBeamrData(storage, config)
  IN IF cached.found
       THEN [ current |-> cached,
              builds |-> {Build(cached.pools, TRUE)} \cup RebuildEffect(cached, TRUE),
              graph |-> graph,
              isInitialLoad |-> isInitialLoad ]
       ELSE [ current |-> Null,
              builds |-> {},
              graph |-> [nodes |-> <<>>, edges |-> <<>>],
              isInitialLoad |-> FALSE ]

(***************************************************************************)
(* State.                                                                  *)
(***************************************************************************)
VARIABLES
  mHeap0,     \* the pool objects before the call under test
  mHeap,      \* the pool objects now
  mExisting,  \* existing.pools (references)
  mIncoming,  \* incoming.pools (references)
  mMerged,    \* mergeBeamrData(existing, incoming).pools
  mMerged2,   \* mergeBeamrData(merged, incoming).pools
  mChanged,   \* result of hasBeamrDataChanges
  mPc

VARIABLES
  eHeap0,     \* the two pools a (reference 1) and b (reference 2) before poolsEqual
  eHeap,      \* the two pools now
  eResult,    \* result of poolsEqual(a, b)
  ePc

VARIABLES
  rPool,      \* the pool passed to computePerUnitFlowRate
  rResult,    \* the value it returned
  rPc

VARIABLES
  gData,      \* data.pools passed to buildGraphElements
  gResult,    \* what the edge pass left: status, nodes, edges
  gEnv,       \* import.meta.env.VITE_FARCASTER_TIMEOUT_MS
  gStored,    \* localStorage: the node-position map
  gRace,      \* the Promise.race of resolveFarcasterWithTimeout
  gClock,     \* ms since buildGraphElements was called
  gNodes,     \* the nodes buildGraphElements returns, with their positions
  gPc

VARIABLES
  cStorage,   \* localStorage
  cNow,       \* Date.now()
  cLoad,      \* the last loadCachedBeamrData call: config, storage read, result
  cPc

VARIABLES
  aPhase,          \* "constructed", "mounted" or "unmounted"
  aConfig,         \* config
  aStoredConfig,   \* localStorage: the configuration saveBeamrConfig wrote
  aCurrent,        \* currentData
  aError,          \* error
  aGraph,          \* nodes, edges
  aIsInitialLoad,  \* isInitialLoad
  aStorage,        \* localStorage: the keys of dataCache
  aNow,            \* the clock: number of saveBeamrData calls so far
  aGen,            \* the fetch effect now set up (0: none yet)
  aTimer,          \* the fetch effect whose interval is running (0: none)
  aPolls,          \* number of fetchAndMerge calls so far
  aInFlight,       \* fetchBeamrData calls not settled yet
  aPending,        \* buildGraphElements calls not settled yet
  aEvent,          \* the handler that ran last
  aArrivals        \* the collection held when the configuration was taken up
                   \* and the fetch results merged since, in order of arrival

VARIABLES
  iAddresses,  \* the argument of resolveNeynarProfiles
  iKey,        \* import.meta.env.VITE_NEYNAR_API_KEY is set
  iBatchEnv,   \* import.meta.env.VITE_NEYNAR_BATCH_SIZE
  iStored,     \* localStorage: the profile cache
  iNow,        \* Date.now(), in seconds
  iMapping,    \* mapping
  iRemaining,  \* remaining
  iStill,      \* the addresses of stillMissing not looked up yet
  iLog,        \* the requests sent so far, in order
  iObtained,   \* the profiles the cache and the batch lookups that succeeded gave
  iSettled,    \* the lookups that have settled, with what each one did
  iResult,     \* the promise resolveNeynarProfiles returned
  iPc

mvars == <<mHeap0, mHeap, mExisting, mIncoming, mMerged, mMerged2, mChanged, mPc>>
evars == <<eHeap0, eHeap, eResult, ePc>>

rvars == <<rPool, rResult, rPc>>

gvars == <<gData, gResult, gEnv, gStored, gRace, gClock, gNodes, gPc>>

cvars == <<cStorage, cNow, cLoad, cPc>>

avars == <<aPhase, aConfig, aStoredConfig, aCurrent, aError, aGraph, aIsInitialLoad,
           aStorage, aNow, aGen, aTimer, aPolls, aInFlight, aPending, aEvent,
           aArrivals>>

VARIABLES
  kStored,      \* localStorage under FARCASTER_CACHE_KEY
  kNow,         \* Date.now(), in seconds
  kPasses,      \* how often time has passed
  kKey,         \* whether VITE_NEYNAR_API_KEY is set
  kCalls,       \* the resolveNeynarProfiles calls, by number
  kResolvedAt,  \* when each address was last resolved remotely
  kWriteFailed  \* whether a setItem of writeProfileCache has thrown

kvars == <<kStored, kNow, kPasses, kKey, kCalls, kResolvedAt, kWriteFailed>>

ivars == <<iAddresses, iKey, iBatchEnv, iStored, iNow, iMapping, iRemaining, iStill,
           iLog, iObtained, iSettled, iResult, iPc>>

vars == <<mvars, evars, rvars, gvars, cvars, avars, ivars, kvars>>

notMerge == <<evars, rvars, gvars, cvars, avars, ivars, kvars>>
notEq == <<mvars, rvars, gvars, cvars, avars, ivars, kvars>>
notRate == <<mvars, evars, gvars, cvars, avars, ivars, kvars>>
notGraph == <<mvars, evars, rvars, cvars, avars, ivars, kvars>>
notCache == <<mvars, evars, rvars, gvars, avars, ivars, kvars>>
notApp == <<mvars, evars, rvars, gvars, cvars, ivars, kvars>>
notIdentity == <<mvars, evars, rvars, gvars, cvars, avars, kvars>>
notCalls == <<mvars, evars, rvars, gvars, cvars, avars, ivars>>

StorageEmpty == Storage(ItemAbsent, 0, NoConfig)

NoLoad == [config |-> NoConfig, read |-> ItemAbsent, result |-> Null]

CacheIdle ==
  /\ cStorage = StorageEmpty /\ cNow = 0 /\ cLoad = NoLoad /\ cPc = "idle"

Event(name, live) == [name |-> name, live |-> live]

\* a fetch result as it arrived, and how many fetches of the same effect
\* were still in flight at that moment
Arrival(pools, others) == [pools |-> pools, others |-> others]

Arrivals(prior, results) == [prior |-> prior, results |-> results]

NoArrivals == Arrivals(Null, <<>>)

AppIdle ==
  /\ aPhase = "idle" /\ aConfig = NoConfig /\ aStoredConfig = NoConfig
  /\ aCurrent = Null /\ aError = NoError
  /\ aGraph = [nodes |-> <<>>, edges |-> <<>>] /\ aIsInitialLoad = TRUE
  /\ aStorage = StorageEmpty /\ aNow = 0 /\ aGen = 0 /\ aTimer = 0 /\ aPolls = 0
  /\ aInFlight = EmptyBag /\ aPending = {} /\ aEvent = Event("none", TRUE)
  /\ aArrivals = NoArrivals

Promise(status, value) == [status |-> status, value |-> value]

IdentityIdle ==
  /\ iAddresses = <<>> /\ iKey = FALSE /\ iBatchEnv = Undefined
  /\ iStored = CachedProfiles("absent", 0, EmptyMap) /\ iNow = 0
  /\ iMapping = EmptyMap /\ iRemaining = <<>> /\ iStill = <<>> /\ iLog = <<>>
  /\ iObtained = EmptyMap /\ iResult = Promise("none", EmptyMap) /\ iPc = "idle"
  /\ iSettled = <<>>

CallsIdle ==
  /\ kStored = CachedProfiles("absent", 0, EmptyMap) /\ kNow = 0 /\ kPasses = 0
  /\ kKey = FALSE /\ kCalls = <<>> /\ kResolvedAt = EmptyMap /\ kWriteFailed = FALSE

NoGraph == [status |-> "none", nodes |-> <<>>, edges |-> <<>>, distributedPools |-> <<>>]

Race(profiles, timer, winner) == [profiles |-> profiles, timer |-> timer, winner |-> winner]

NoRace == Race("none", "none", "none")

GraphIdle ==
  /\ gData = <<>> /\ gResult = NoGraph /\ gPc = "idle"
  /\ gEnv = Undefined /\ gStored = StoredPositions("absent", {})
  /\ gRace = NoRace /\ gClock = 0 /\ gNodes = <<>>

RateIdle ==
  /\ rPool = Pool("", Undefined, Undefined, Undefined, Undefined, <<>>, None)
  /\ rResult = 0 /\ rPc = "idle"

EqIdle ==
  /\ eHeap0 = <<>> /\ eHeap = <<>> /\ eResult = FALSE /\ ePc = "idle"

(***************************************************************************)
(* SpecMerge: the merge engine applied to every pair of collections.       *)
(***************************************************************************)
MergeStart ==
  \E s \in Collections(MergePoolUniverse), i \in Collections(MergePoolUniverse) :
    /\ mHeap0 = s \o i
    /\ mHeap = s \o i
    /\ mExisting = Refs(0, Len(s))
    /\ mIncoming = Refs(Len(s), Len(i))
    /\ mMerged = <<>>
    /\ mMerged2 = <<>>
    /\ mChanged = FALSE
    /\ mPc = "start"

MergeIdle ==
  /\ mHeap0 = <<>> /\ mHeap = <<>> /\ mExisting = <<>> /\ mIncoming = <<>>
  /\ mMerged = <<>> /\ mMerged2 = <<>> /\ mChanged = FALSE /\ mPc = "idle"

\* merged = mergeBeamrData(existing, incoming)
CallMerge ==
  /\ mPc = "start"
  /\ LET r == mergeBeamrData(mHeap, mExisting, mIncoming)
     IN /\ mMerged' = r.pools
        /\ mHeap' = r.heap
  /\ mPc' = "merged"
  /\ UNCHANGED <<mHeap0, mExisting, mIncoming, mMerged2, mChanged>>
  /\ UNCHANGED notMerge

\* mergeBeamrData(merged, incoming): the same incoming collection once more
CallMergeAgain ==
  /\ mPc = "merged"
  /\ LET r == mergeBeamrData(mHeap, mMerged, mIncoming)
     IN /\ mMerged2' = r.pools
        /\ mHeap' = r.heap
  /\ mPc' = "mergedTwice"
  /\ UNCHANGED <<mHeap0, mExisting, mIncoming, mMerged, mChanged>>
  /\ UNCHANGED notMerge

\* hasBeamrDataChanges(merged, incoming)
CallChangesAfterMerge ==
  /\ mPc = "merged"
  /\ LET r == hasBeamrDataChanges(mHeap, mMerged, mIncoming)
     IN /\ mChanged' = r.res
        /\ mHeap' = r.heap
  /\ mPc' = "checkedAfterMerge"
  /\ UNCHANGED <<mHeap0, mExisting, mIncoming, mMerged, mMerged2>>
  /\ UNCHANGED notMerge

\* hasBeamrDataChanges(existing, incoming)
CallChanges ==
  /\ mPc = "start"
  /\ LET r == hasBeamrDataChanges(mHeap, mExisting, mIncoming)
     IN /\ mChanged' = r.res
        /\ mHeap' = r.heap
  /\ mPc' = "checked"
  /\ UNCHANGED <<mHeap0, mExisting, mIncoming, mMerged, mMerged2>>
  /\ UNCHANGED notMerge

MergeNext == CallMerge \/ CallMergeAgain \/ CallChangesAfterMerge \/ CallChanges

MergeInit == MergeStart /\ EqIdle /\ RateIdle /\ GraphIdle /\ CacheIdle /\ AppIdle /\ IdentityIdle /\ CallsIdle

SpecMerge == MergeInit /\ [][MergeNext]_vars

(***************************************************************************)
(* Equality of pools stated without an order: the scalar fields agree      *)
(* (addresses up to letter case) and the two lists hold the same entries   *)
(* the same number of times.                                               *)
(***************************************************************************)
MemberKey(m) == <<m.id, ToLowerCase(m.account), m.units, m.isConnected>>
DistributorKey(d) == <<d.id, ToLowerCase(d.account), d.flowRate>>

\* two lists of keys hold the same keys the same number of times
SameEntries(xs, ys) ==
  /\ Len(xs) = Len(ys)
  /\ \A i \in DOMAIN xs :
       Cardinality({j \in DOMAIN xs : xs[j] = xs[i]})
         = Cardinality({j \in DOMAIN ys : ys[j] = xs[i]})

MemberKeys(ms) == [k \in DOMAIN ms |-> MemberKey(ms[k])]
DistributorKeys(ds) == [k \in DOMAIN ds |-> DistributorKey(ds[k])]

SameScalars(a, b) ==
  /\ ToLowerCase(a.id) = ToLowerCase(b.id)
  /\ OptToLowerCase(a.admin) = OptToLowerCase(b.admin)
  /\ a.totalUnits = b.totalUnits
  /\ a.flowRate = b.flowRate
  /\ a.perUnitFlowRate = b.perUnitFlowRate

EqualIgnoringOrder(a, b) ==
  /\ SameScalars(a, b)
  /\ SameEntries(MemberKeys(a.poolMembers), MemberKeys(b.poolMembers))
  /\ SameEntries(DistributorKeys(OrEmpty(a.poolDistributors)),
                 DistributorKeys(OrEmpty(b.poolDistributors)))

mExistingPools0 == Deref(mHeap0, mExisting)
mIncomingPools0 == Deref(mHeap0, mIncoming)

\* C1: mergeBeamrData(S, I) contains every pool id (case-insensitively) that
\* is present in S; merge never removes a pool, also not one absent from I.
C1_MonotonicRetention ==
  mPc = "merged" =>
    /\ PoolIds(mExistingPools0) \subseteq PoolIds(Deref(mHeap, mMerged))
    /\ Len(mMerged) >= Len(mExisting)

C1_Witness ==
  /\ mPc = "merged"
  /\ PoolIds(mExistingPools0) \ PoolIds(mIncomingPools0) # {}
  /\ PoolIds(mIncomingPools0) \ PoolIds(mExistingPools0) # {}

\* C2: merging the same incoming collection a second time changes nothing:
\* mergeBeamrData(mergeBeamrData(S, I), I) holds the same pools in the same
\* order as mergeBeamrData(S, I), no pool object replaced, and
\* hasBeamrDataChanges(mergeBeamrData(S, I), I) is false.
C2_IdempotentMerge ==
  /\ mPc = "mergedTwice" =>
       /\ mMerged2 = mMerged
       /\ \A k \in DOMAIN mMerged : EqualIgnoringOrder(mHeap[mMerged2[k]], mHeap[mMerged[k]])
  /\ mPc = "checkedAfterMerge" => mChanged = FALSE

C2_Witness ==
  /\ mPc = "mergedTwice"
  /\ Len(mMerged) > Len(mExisting)
  /\ \E k \in DOMAIN mExisting : mMerged[k] # mExisting[k]

\* C3: mergeBeamrData and hasBeamrDataChanges leave their arguments as they
\* were: every pool of existing and of incoming has the same field values
\* and the same order of poolMembers and poolDistributors after the call.
C3_ArgumentsUnmodified ==
  mPc \in {"merged", "checked"} => mHeap = mHeap0

\* an incoming pool whose id no pool of existing has
mIsNew(ref) == ToLowerCase(mHeap0[ref].id) \notin PoolIds(mExistingPools0)

\* the incoming pools with the id of the k-th existing pool that differ from it
mChangedFor(k) ==
  {j \in DOMAIN mIncoming :
     /\ ToLowerCase(mIncomingPools0[j].id) = ToLowerCase(mExistingPools0[k].id)
     /\ ~EqualIgnoringOrder(mExistingPools0[k], mIncomingPools0[j])}

\* C18: in mergeBeamrData(S, I) the first |S| positions hold, index for
\* index, a pool with the id of the pool of S at that index: the pool object
\* of I when I has a pool with that id that differs from it, the original
\* pool object of S otherwise; the pools of I whose id is not in S follow
\* in the order of I.
C18_MergePlacement ==
  mPc = "merged" =>
    /\ Len(mMerged) >= Len(mExisting)
    /\ \A k \in DOMAIN mExisting :
         /\ ToLowerCase(mHeap[mMerged[k]].id) = ToLowerCase(mExistingPools0[k].id)
         /\ IF mChangedFor(k) # {}
              THEN \E j \in mChangedFor(k) : mMerged[k] = mIncoming[j]
              ELSE mMerged[k] = mExisting[k]
    /\ SubSeq(mMerged, Len(mExisting) + 1, Len(mMerged)) = SelectSeq(mIncoming, mIsNew)

C18_Witness ==
  /\ mPc = "merged"
  /\ Len(mExisting) = 2
  /\ mChangedFor(1) = {}
  /\ mChangedFor(2) # {}
  /\ mMerged[2] \in {mIncoming[j] : j \in DOMAIN mIncoming}
  /\ Len(mMerged) > 2

\* C5: hasBeamrDataChanges(existing, incoming) is true exactly when some
\* incoming pool has no pool of existing with its id (case-insensitively) or
\* differs from that pool; pools only in existing never make it true.
C5_ChangesExactly ==
  mPc = "checked" =>
    (mChanged <=>
       \E k \in DOMAIN mIncomingPools0 :
         \/ ToLowerCase(mIncomingPools0[k].id) \notin PoolIds(mExistingPools0)
         \/ \E j \in DOMAIN mExistingPools0 :
              /\ ToLowerCase(mExistingPools0[j].id) = ToLowerCase(mIncomingPools0[k].id)
              /\ ~EqualIgnoringOrder(mExistingPools0[j], mIncomingPools0[k]))

C5_Witness ==
  /\ mPc = "checked"
  /\ ~mChanged
  /\ mIncoming # <<>>
  /\ PoolIds(mExistingPools0) \ PoolIds(mIncomingPools0) # {}
  /\ \E k \in DOMAIN mIncomingPools0, j \in DOMAIN mExistingPools0 :
       /\ ToLowerCase(mExistingPools0[j].id) = ToLowerCase(mIncomingPools0[k].id)
       /\ mExistingPools0[j] # mIncomingPools0[k]

(***************************************************************************)
(* SpecEq: poolsEqual applied to every pair of pools of a universe in      *)
(* which every field that poolsEqual reads takes several values and the    *)
(* member lists are all lists without a repeated id up to MaxMembers long. *)
(***************************************************************************)
EqMemberUniverse ==
  { Member("m1", "0xaa", "30", "true"), Member("m1", "0xAA", "30", "true"),
    Member("m2", "0xbb", "70", "true"), Member("m2", "0xbb", "50", "true"),
    Member("m3", "0xcc", "10", Undefined) }

NoRepeatedId(s) == \A i, j \in DOMAIN s : i # j => s[i].id # s[j].id

EqMemberLists ==
  {s \in UNION {[1..k -> EqMemberUniverse] : k \in 0..MaxMembers} : NoRepeatedId(s)}

EqDistributorLists ==
  { None, Some(<<>>), Some(<<dA>>), Some(<<dA, dB>>), Some(<<dB, dA>>),
    Some(<<dA, Distributor("d2", "0xCC", "2000")>>) }

EqPoolsA ==
  { Pool("0xp1", "0xad", "100", "1000", "10", ms, ds) :
      ms \in EqMemberLists, ds \in {None, Some(<<dA, dB>>), Some(<<dB, dA>>)} }

EqScalars ==
  { <<"0xp1", "0xad", "100", "1000", "10">>,
    <<"0xP1", "0xad", "100", "1000", "10">>,
    <<"0xp2", "0xad", "100", "1000", "10">>,
    <<"0xp1", "0xAD", "100", "1000", "10">>,
    <<"0xp1", Undefined, "100", "1000", "10">>,
    <<"0xp1", "0xad", "200", "1000", "10">>,
    <<"0xp1", "0xad", "100", "2000", "10">>,
    <<"0xp1", "0xad", "100", "1000", "20">> }

EqPoolsB ==
  { Pool(sc[1], sc[2], sc[3], sc[4], sc[5], ms, ds) :
      sc \in EqScalars, ms \in EqMemberLists, ds \in EqDistributorLists }

EqStart ==
  \E a \in EqPoolsA, b \in EqPoolsB :
    /\ eHeap0 = <<a, b>>
    /\ eHeap = <<a, b>>
    /\ eResult = FALSE
    /\ ePc = "start"

\* result = poolsEqual(a, b)
CallPoolsEqual ==
  /\ ePc = "start"
  /\ LET r == poolsEqual(eHeap, 1, 2)
     IN /\ eResult' = r.res
        /\ eHeap' = r.heap
  /\ ePc' = "done"
  /\ UNCHANGED eHeap0
  /\ UNCHANGED notEq

EqNext == CallPoolsEqual

EqInit == EqStart /\ MergeIdle /\ RateIdle /\ GraphIdle /\ CacheIdle /\ AppIdle /\ IdentityIdle /\ CallsIdle

SpecEq == EqInit /\ [][EqNext]_vars

\* C4: two pools whose scalar fields are equal and whose poolMembers and
\* poolDistributors lists hold the same entries, in whatever order each list
\* is, are poolsEqual; the result depends on the entries of the lists only,
\* not on their order (it is the order-free equality of the two pools).
C4_EqualityIgnoresOrder ==
  ePc = "done" =>
    (eResult <=> EqualIgnoringOrder(eHeap0[1], eHeap0[2]))

C4_Witness ==
  /\ ePc = "done"
  /\ eResult
  /\ Len(eHeap0[1].poolMembers) >= 2
  /\ eHeap0[1].poolMembers # eHeap0[2].poolMembers
  /\ eHeap0[1].poolDistributors # eHeap0[2].poolDistributors
  /\ eHeap0[1].poolMembers # SortById(eHeap0[1].poolMembers)

(***************************************************************************)
(* SpecRate: computePerUnitFlowRate applied to pools whose three numeric   *)
(* strings and whose members' units are valid, zero, negative, malformed   *)
(* or absent.                                                              *)
(***************************************************************************)
RateStrings == {Undefined, "0", "10", "100", "1000", "-5", "abc"}
RateUnits == {"0", "30", "70", "-5", "abc"}
MemberIds == <<"m1", "m2", "m3">>
MemberAccounts == <<"0xaa", "0xbb", "0xcc">>

RateMemberLists ==
  UNION { { [k \in 1..n |-> Member(MemberIds[k], MemberAccounts[k], us[k], "true")] :
              us \in [1..n -> RateUnits] } : n \in 0..MaxMembers }

RateStart ==
  \E pu \in RateStrings, fr \in RateStrings, tu \in RateStrings, ms \in RateMemberLists :
    /\ rPool = Pool("0xp1", "0xad", tu, fr, pu, ms, Some(<<dA>>))
    /\ rResult = 0
    /\ rPc = "start"

\* result = computePerUnitFlowRate(pool)
CallComputePerUnitFlowRate ==
  /\ rPc = "start"
  /\ rResult' = computePerUnitFlowRate(rPool)
  /\ rPc' = "done"
  /\ UNCHANGED rPool
  /\ UNCHANGED notRate

RateNext == CallComputePerUnitFlowRate

RateInit == RateStart /\ MergeIdle /\ EqIdle /\ GraphIdle /\ CacheIdle /\ AppIdle /\ IdentityIdle /\ CallsIdle

SpecRate == RateInit /\ [][RateNext]_vars

\* a string that is present and that BigInt rejects
Malformed(s) == s # Undefined /\ ~BigIntParses(s)

rSupplied == safeBigInt(rPool.perUnitFlowRate)
rFlowRate == safeBigInt(rPool.flowRate)
\* T: totalUnits if positive, else the sum of all members' units
rT ==
  IF safeBigInt(rPool.totalUnits) > 0 THEN safeBigInt(rPool.totalUnits)
  ELSE SumMemberUnits(rPool.poolMembers)
rAnyMalformed ==
  \/ Malformed(rPool.perUnitFlowRate) \/ Malformed(rPool.flowRate)
  \/ Malformed(rPool.totalUnits)
  \/ \E k \in DOMAIN rPool.poolMembers : Malformed(rPool.poolMembers[k].units)

\* C9 as stated: the supplied perUnitFlowRate when positive; otherwise the
\* integer quotient flowRate / T; and 0 when T is not positive, when flowRate
\* is not positive, or when any of the strings is not a valid integer.
C9_AsStated ==
  rPc = "done" =>
    IF rSupplied > 0 THEN rResult = rSupplied
    ELSE IF rT <= 0 \/ rFlowRate <= 0 \/ rAnyMalformed THEN rResult = 0
    ELSE rResult = rFlowRate \div rT

\* C9 (amended): every absent or malformed string is read as 0.  The result
\* is the supplied perUnitFlowRate when positive; otherwise flowRate / T when
\* flowRate and T are both positive; otherwise the value read for the
\* supplied perUnitFlowRate, which is 0 unless a negative one was supplied.
C9_PerUnitDerivation ==
  rPc = "done" =>
       IF rSupplied > 0 THEN rResult = rSupplied
       ELSE IF rT > 0 /\ rFlowRate > 0 THEN rResult = rFlowRate \div rT
       ELSE rResult = rSupplied

C9_Witness ==
  /\ rPc = "done"
  /\ rPool.perUnitFlowRate = Undefined
  /\ rPool.flowRate = "1000"
  /\ rPool.totalUnits = "abc"
  /\ Len(rPool.poolMembers) = 2
  /\ rPool.poolMembers[1].units = "30"
  /\ rPool.poolMembers[2].units = "70"
  /\ rResult = 10

(***************************************************************************)
(* SpecGraph: buildGraphElements applied to collections of pools: derived  *)
(* and supplied per-unit rates, several distributors, a distributor that   *)
(* is its own member, disconnected and unit-less members, upper-case       *)
(* addresses, pools without distributors or without members.               *)
(***************************************************************************)
GraphPoolUniverse ==
  { Pool("0xp1", "0xad", "0", "1000", Undefined,
         <<Member("m1", "0xaa", "30", "true"), Member("m2", "0xbb", "70", "true")>>,
         Some(<<dA>>)),
    Pool("0xp1", "0xad", "100", "1000", "10",
         <<Member("m1", "0xAA", "30", Undefined)>>, Some(<<dA, dB>>)),
    Pool("0xp1", "0xad", "0", "0", "0",
         <<Member("m1", "0xaa", "30", "true")>>, Some(<<dA>>)),
    Pool("0xp1", "0xad", "100", "1000", "10",
         <<Member("m1", "0xaa", "30", "true")>>, None),
    Pool("0xP2", "0xad", "100", "2000", "20",
         <<Member("m1", "0xbb", "50", "true"), Member("m2", "0xDD", "50", "true")>>,
         Some(<<dA>>)),
    Pool("0xp2", "0xad", "100", "1000", "10",
         <<Member("m1", "0xaa", "30", "false"), Member("m2", "0xbb", "0", "true"),
           Member("m3", "0xcc", "abc", "true")>>,
         Some(<<dA>>)),
    Pool("0xp2", "0xad", "100", "1000", "10", <<>>, Some(<<dA, dB>>)),
    Pool("0xp3", "0xad", "100", "1000", "10",
         <<Member("m1", "0xdd", "100", "true")>>, Some(<<dA>>)),
    Pool("0xp3", "0xad", "100", "1000", "10",
         <<Member("m1", "0xaa", "70", "true"), Member("m2", "0xcc", "30", "true")>>,
         Some(<<dA, dB>>)),
    Pool("0xp3", "0xad", "100", "1000", "10",
         <<Member("m1", "0xaa", "100", "false"), Member("m2", "0xbb", "-5", "true")>>,
         Some(<<dB>>)),
    Pool("0xp2", "0xad", Undefined, "500", Undefined,
         <<>>, Some(<<Distributor("d1", "0xAA", "500")>>)) }

MaxClock == 5000

TimeoutEnvs == {Undefined, "2000", "0", "abc"}

\* what resolveNeynarProfiles may fulfil with, keyed by lower-case address
ProfileMaps ==
  { EmptyMap,
    [a \in {"0xdd"} |-> Profile("dora", "https://img/dora")],
    [a \in {"0xdd", "0xcc"} |->
       IF a = "0xdd" THEN Profile("", "https://img/dora")
       ELSE Profile("carl", Undefined)] }

StoredPositionsUniverse ==
  { StoredPositions("absent", {}),
    StoredPositions("unparsable", {}),
    StoredPositions("object",
      { StoredPosition(makeAccountNodeId("0xdd"), 5, 7, TRUE),
        StoredPosition(makeAccountNodeId("0xcc"), 0, 0, FALSE) }) }

\* values of generateRandomPosition: points at a distance of 1000 to 4000
RandomPositions == {Position(1000, 0), Position(0, -2500)}

GraphStart ==
  \E d \in Collections(GraphPoolUniverse) :
    /\ gData = d
    /\ gResult = NoGraph
    /\ gEnv \in TimeoutEnvs
    /\ gStored \in StoredPositionsUniverse
    /\ gRace = NoRace
    /\ gClock = 0
    /\ gNodes = <<>>
    /\ gPc = "start"

\* buildGraphElements(data), lines 558-725: the loops over data.pools, then
\* resolveFarcasterWithTimeout starts resolveNeynarProfiles and the timer;
\* when an edge object throws, the promise is rejected and nothing follows
RunEdgePass ==
  /\ gPc = "start"
  /\ gResult' = EdgePass(gData)
  /\ gRace' = IF EdgePass(gData).status = "built"
                THEN Race("pending", "pending", "none")
                ELSE NoRace
  /\ gPc' = "edgesDone"
  /\ UNCHANGED <<gData, gEnv, gStored, gClock, gNodes>>
  /\ UNCHANGED notGraph

\* 1000 ms pass; a timer that is due fires before more time passes
Tick ==
  /\ gPc \in {"edgesDone", "done"}
  /\ gRace # NoRace
  /\ gClock < MaxClock
  /\ gRace.timer = "pending" => gClock < TimeoutMs(gEnv)
  /\ gClock' = gClock + 1000
  /\ UNCHANGED <<gData, gResult, gEnv, gStored, gRace, gNodes, gPc>>
  /\ UNCHANGED notGraph

\* the race is settled by its first promise: buildGraphElements goes on
\* after its await with the profiles it got
Continue(profiles) ==
  \E random \in [DOMAIN gResult.nodes -> RandomPositions] :
    /\ gNodes' = FinishBuild(gResult, profiles, gStored, random)
    /\ gPc' = "done"

\* resolveNeynarProfiles fulfils
ProfilesFulfil ==
  /\ gRace.profiles = "pending"
  /\ \E profiles \in ProfileMaps :
       IF gRace.winner = "none"
         THEN /\ gRace' = [gRace EXCEPT !.profiles = "fulfilled", !.winner = "profiles"]
              /\ Continue(profiles)
         ELSE /\ gRace' = [gRace EXCEPT !.profiles = "fulfilled"]
              /\ UNCHANGED <<gNodes, gPc>>
  /\ UNCHANGED <<gData, gResult, gEnv, gStored, gClock>>
  /\ UNCHANGED notGraph

\* resolveNeynarProfiles rejects: the race rejects, the catch of
\* buildGraphElements takes {} for the profiles
ProfilesReject ==
  /\ gRace.profiles = "pending"
  /\ IF gRace.winner = "none"
       THEN /\ gRace' = [gRace EXCEPT !.profiles = "rejected", !.winner = "rejection"]
            /\ Continue(EmptyMap)
       ELSE /\ gRace' = [gRace EXCEPT !.profiles = "rejected"]
            /\ UNCHANGED <<gNodes, gPc>>
  /\ UNCHANGED <<gData, gResult, gEnv, gStored, gClock>>
  /\ UNCHANGED notGraph

\* setTimeout(() => resolve({}), timeoutMs)
TimerFires ==
  /\ gRace.timer = "pending"
  /\ gClock >= TimeoutMs(gEnv)
  /\ IF gRace.winner = "none"
       THEN /\ gRace' = [gRace EXCEPT !.timer = "fired", !.winner = "timer"]
            /\ Continue(EmptyMap)
       ELSE /\ gRace' = [gRace EXCEPT !.timer = "fired"]
            /\ UNCHANGED <<gNodes, gPc>>
  /\ UNCHANGED <<gData, gResult, gEnv, gStored, gClock>>
  /\ UNCHANGED notGraph

GraphNext ==
  \/ RunEdgePass
  \/ Tick
  \/ ProfilesFulfil
  \/ ProfilesReject
  \/ TimerFires

GraphInit == GraphStart /\ MergeIdle /\ EqIdle /\ RateIdle /\ CacheIdle /\ AppIdle /\ IdentityIdle /\ CallsIdle

SpecGraph == GraphInit /\ [][GraphNext]_vars

\* the (pool, member, distributor) triples of data for which C10 asks an
\* edge: member connected with units > 0, distributor at another address
gExpectedTriples ==
  { <<p, m, d>> \in (DOMAIN gData) \X (1..3) \X (1..3) :
      /\ m \in DOMAIN gData[p].poolMembers
      /\ d \in DOMAIN OrEmpty(gData[p].poolDistributors)
      /\ gData[p].poolMembers[m].isConnected # "false"
      /\ safeBigInt(gData[p].poolMembers[m].units) > 0
      /\ normalizeAddress(OrEmpty(gData[p].poolDistributors)[d].account)
           # normalizeAddress(gData[p].poolMembers[m].account) }

\* the edge C10 asks for a triple: distributor -> member, with flow rate
\* perUnitFlowRate(pool) * member units
gExpectedEdge(tr) ==
  LET pool == gData[tr[1]]
      member == pool.poolMembers[tr[2]]
      distributor == OrEmpty(pool.poolDistributors)[tr[3]]
  IN [ pool |-> normalizeAddress(pool.id),
       source |-> makeAccountNodeId(normalizeAddress(distributor.account)),
       target |-> makeAccountNodeId(normalizeAddress(member.account)),
       flowRate |-> computePerUnitFlowRate(pool) * safeBigInt(member.units) ]

gEdgeKey(e) ==
  [pool |-> e.id[2], source |-> e.source, target |-> e.target, flowRate |-> e.flowRate]

\* C10: buildGraphElements creates, for every pool, every member of it with
\* isConnected !== false and units > 0 and every distributor of that pool at
\* another address, exactly one edge distributor -> member whose flowRate is
\* perUnitFlowRate(pool) * member units, and no other edge.
C10_EdgeConstruction ==
  gPc = "edgesDone" =>
    /\ gResult.status = "built"
    /\ Len(gResult.edges) = Cardinality(gExpectedTriples)
    /\ \A tr \in gExpectedTriples :
         Cardinality({k \in DOMAIN gResult.edges :
                        gEdgeKey(gResult.edges[k]) = gExpectedEdge(tr)})
           = Cardinality({t2 \in gExpectedTriples : gExpectedEdge(t2) = gExpectedEdge(tr)})

\* the (pool, member, distributor) triples of data in which a member that
\* is connected and has units > 0 meets a distributor at its own address
gSelfTriples ==
  { <<p, m, d>> \in (DOMAIN gData) \X (1..3) \X (1..3) :
      /\ m \in DOMAIN gData[p].poolMembers
      /\ d \in DOMAIN OrEmpty(gData[p].poolDistributors)
      /\ gData[p].poolMembers[m].isConnected # "false"
      /\ safeBigInt(gData[p].poolMembers[m].units) > 0
      /\ ToLowerCase(OrEmpty(gData[p].poolDistributors)[d].account)
           = ToLowerCase(gData[p].poolMembers[m].account) }

RECURSIVE gSumFlow(_)
gSumFlow(triples) ==
  IF triples = {} THEN 0
  ELSE LET tr == CHOOSE tr \in triples : TRUE
       IN gExpectedEdge(tr).flowRate + gSumFlow(triples \ {tr})

\* the statistics a node at address has when only the pairs of
\* gExpectedTriples count: per direction the sum of their flow rates and the
\* number of distinct addresses at the other end
gIncomingOf(address) ==
  LET mine == {tr \in gExpectedTriples : gExpectedEdge(tr).target[2] = address}
  IN [ defined |-> mine # {},
       totalFlowRate |-> gSumFlow(mine),
       userCount |-> Cardinality({gExpectedEdge(tr).source : tr \in mine}) ]

gOutgoingOf(address) ==
  LET mine == {tr \in gExpectedTriples : gExpectedEdge(tr).source[2] = address}
  IN [ defined |-> mine # {},
       totalFlowRate |-> gSumFlow(mine),
       userCount |-> Cardinality({gExpectedEdge(tr).target : tr \in mine}) ]

gBuilt == gPc \in {"edgesDone", "done"} /\ gResult.status = "built"

\* C11: no edge that buildGraphElements produces has its source equal to its
\* target, addresses compared lower-cased; data in which every distributor
\* meets only itself among the connected members with units (a pool whose
\* sole distributor is its sole member) gives a graph with zero edges; and
\* the incoming and outgoing statistics of every node count only the pairs
\* at two different addresses, so a suppressed self-pair adds nothing.
C11_SelfEdgeSuppression ==
  /\ gPc \in {"edgesDone", "done"} =>
       /\ \A k \in DOMAIN gResult.edges :
            ToLowerCase(gResult.edges[k].source[2]) # ToLowerCase(gResult.edges[k].target[2])
       /\ (gSelfTriples # {} /\ gExpectedTriples = {}) =>
            (gResult.status = "built" /\ gResult.edges = <<>>)
  /\ gPc = "done" =>
       \A k \in DOMAIN gNodes :
         /\ gNodes[k].node.incomingFlows = gIncomingOf(gNodes[k].node.address)
         /\ gNodes[k].node.outgoingFlows = gOutgoingOf(gNodes[k].node.address)

C11_Witness ==
  /\ gPc = "done"
  /\ gSelfTriples # {}
  /\ gResult.edges = <<>>
  /\ \E k \in DOMAIN gNodes :
       /\ gNodes[k].node.address = "0xdd"
       /\ ~gNodes[k].node.incomingFlows.defined
       /\ ~gNodes[k].node.outgoingFlows.defined

\* a member C12 excludes: isConnected false, or units that are no valid
\* integer string, zero or negative (absent units read as "0")
gExcluded(member) ==
  LET units == IF member.units = Undefined THEN "0" ELSE member.units
  IN \/ member.isConnected = "false"
     \/ ~BigIntParses(units)
     \/ BigIntOf(units) <= 0

gMembersOf(p) == {gData[p].poolMembers[m] : m \in DOMAIN gData[p].poolMembers}

gAllMembers == UNION {gMembersOf(p) : p \in DOMAIN gData}

\* C12: a pool member with isConnected false, or with units that are zero,
\* negative or no valid integer string, is the target of no edge of that
\* pool, whatever the pool's flow rate; data in which every member is such a
\* member gives a graph with zero edges; and an address that is such a
\* member wherever it is a member has no incoming statistics, while the
\* outgoing statistics of every node count only the members that are not.
C12_ExcludedMembers ==
  /\ gPc \in {"edgesDone", "done"} =>
       /\ \A p \in DOMAIN gData : \A a \in {ToLowerCase(mb.account) : mb \in gMembersOf(p)} :
            (\A mb \in gMembersOf(p) : ToLowerCase(mb.account) = a => gExcluded(mb)) =>
              ~\E k \in DOMAIN gResult.edges :
                 /\ gResult.edges[k].id[2] = ToLowerCase(gData[p].id)
                 /\ gResult.edges[k].target[2] = a
       /\ (\A mb \in gAllMembers : gExcluded(mb)) =>
            (gResult.status = "built" /\ gResult.edges = <<>>)
  /\ gPc = "done" =>
       \A k \in DOMAIN gNodes :
         /\ (\A mb \in gAllMembers :
               ToLowerCase(mb.account) = gNodes[k].node.address => gExcluded(mb))
              => gNodes[k].node.incomingFlows = NoStats
         /\ gNodes[k].node.outgoingFlows = gOutgoingOf(gNodes[k].node.address)

C12_Witness ==
  /\ gPc = "done"
  /\ \E p \in DOMAIN gData :
       /\ computePerUnitFlowRate(gData[p]) > 0
       /\ gData[p].poolDistributors # None
       /\ \E mb \in gMembersOf(p) : mb.isConnected = "false" /\ safeBigInt(mb.units) > 0
       /\ \E mb \in gMembersOf(p) : mb.isConnected # "false" /\ safeBigInt(mb.units) < 0
  /\ gResult.edges = <<>>
  /\ gNodes # <<>>

\* pairs of expected triples from two different pools with the same sender
\* and the same receiver
gTwoPoolPairs ==
  { pr \in gExpectedTriples \X gExpectedTriples :
      /\ pr[1][1] # pr[2][1]
      /\ gExpectedEdge(pr[1]).source = gExpectedEdge(pr[2]).source
      /\ gExpectedEdge(pr[1]).target = gExpectedEdge(pr[2]).target }

\* C13: buildGraphElements returns a graph in which, for every node,
\* incomingFlows.userCount is the number of distinct senders over its
\* incoming edges, outgoingFlows.userCount the number of distinct receivers
\* over its outgoing edges, and totalFlowRate in each direction the sum over
\* those edges; two pools that both flow from A to B give two edges with
\* different ids from A to B, and B counts A once and adds up both rates.
C13_DistinctCounterparties ==
  /\ gPc \in {"edgesDone", "done"} =>
       /\ gResult.status = "built"
       /\ \A pr \in gTwoPoolPairs :
            \E k1, k2 \in DOMAIN gResult.edges :
              /\ gResult.edges[k1].id # gResult.edges[k2].id
              /\ gEdgeKey(gResult.edges[k1]) = gExpectedEdge(pr[1])
              /\ gEdgeKey(gResult.edges[k2]) = gExpectedEdge(pr[2])
  /\ gPc = "done" =>
       /\ \A k \in DOMAIN gNodes :
            LET address == gNodes[k].node.address
                into == {j \in DOMAIN gResult.edges : gResult.edges[j].target[2] = address}
                outOf == {j \in DOMAIN gResult.edges : gResult.edges[j].source[2] = address}
            IN /\ gNodes[k].node.incomingFlows.defined = (into # {})
               /\ gNodes[k].node.outgoingFlows.defined = (outOf # {})
               /\ gNodes[k].node.incomingFlows.userCount
                    = Cardinality({gResult.edges[j].source[2] : j \in into})
               /\ gNodes[k].node.outgoingFlows.userCount
                    = Cardinality({gResult.edges[j].target[2] : j \in outOf})
               /\ gNodes[k].node.incomingFlows = gIncomingOf(address)
               /\ gNodes[k].node.outgoingFlows = gOutgoingOf(address)
       /\ \A pr \in gTwoPoolPairs :
            \E k \in DOMAIN gNodes :
              /\ gNodes[k].node.id = gExpectedEdge(pr[1]).target
              /\ gNodes[k].node.incomingFlows.userCount
                   < Cardinality({j \in DOMAIN gResult.edges :
                                    gResult.edges[j].target = gNodes[k].node.id})

\* the timeout configured for the build: the number the environment gives
\* when it is positive, 4000 ms otherwise
gConfiguredTimeout == IF gEnv = "2000" THEN 2000 ELSE 4000

\* C14: once identity resolution has been started, buildGraphElements has
\* returned its graph by the time more than the configured timeout (4000 ms
\* by default) has passed, whether or not resolveNeynarProfiles has settled;
\* and when the timer wins the race, or resolveNeynarProfiles rejects, the
\* build returns every node with its shortened address as label, no handle
\* and no avatar.
C14_TimeoutFallback ==
  /\ (gRace # NoRace /\ gClock > gConfiguredTimeout) =>
       (gPc = "done" /\ Len(gNodes) = Len(gResult.nodes))
  /\ (gPc = "done" /\ gRace.winner \in {"timer", "rejection"}) =>
       /\ Len(gNodes) = Len(gResult.nodes)
       /\ \A k \in DOMAIN gNodes :
            /\ gNodes[k].node.id = gResult.nodes[k]
            /\ gNodes[k].node.label = <<shortenAddress(gNodes[k].node.address)>>
            /\ gNodes[k].node.farcaster = Undefined
            /\ gNodes[k].node.avatarUrl = Undefined

C14_Witness ==
  /\ gPc = "done"
  /\ gEnv = Undefined
  /\ gRace = Race("pending", "fired", "timer")
  /\ gClock > 4000
  /\ Len(gNodes) >= 2

\* the valid entries of the persisted position map for a node id
gSavedEntries(id) ==
  IF gStored.kind # "object" THEN {}
  ELSE {entry \in gStored.entries : entry.ok /\ entry.nodeId = id}

\* C17: in a finished build every node whose id has a valid entry in the
\* persisted position map stands exactly at the saved coordinate, every
\* other node stands at a freshly generated random position, and no step of
\* the builder changes the persisted position map.
C17_LayoutStability ==
  /\ [](gPc = "done" =>
          \A k \in DOMAIN gNodes :
            IF gSavedEntries(gNodes[k].node.id) # {}
              THEN \E entry \in gSavedEntries(gNodes[k].node.id) :
                     gNodes[k].position = Position(entry.x, entry.y)
              ELSE gNodes[k].position \in RandomPositions)
  /\ [][gStored' = gStored]_vars

C17_Witness ==
  /\ gPc = "done"
  /\ \E k \in DOMAIN gNodes :
       /\ gNodes[k].node.id = makeAccountNodeId("0xdd")
       /\ gNodes[k].position = Position(5, 7)
  /\ \E k \in DOMAIN gNodes :
       /\ gNodes[k].node.id = makeAccountNodeId("0xcc")
       /\ gNodes[k].position \in RandomPositions
  /\ gStored.kind = "object"

\* C21: the edge pass of buildGraphElements does not fail, and every edge
\* it creates carries as data.units the units of the pool member it was
\* created for (the member of that pool at the edge's target address).
C21_EdgeUnits ==
  gPc = "edgesDone" =>
    /\ gResult.status = "built"
    /\ \A k \in DOMAIN gResult.edges :
         \E tr \in gExpectedTriples :
           /\ gEdgeKey(gResult.edges[k]) = gExpectedEdge(tr)
           /\ gResult.edges[k].units = safeBigInt(gData[tr[1]].poolMembers[tr[2]].units)

(***************************************************************************)
(* SpecCache: saveBeamrData and loadCachedBeamrData over a storage that    *)
(* starts empty, unparsable or without a pools array, under configurations *)
(* that differ in the URL, in the token address, or in letter case only.   *)
(***************************************************************************)
MaxSaves == 2

SubgraphUrls == {"https://subgraph/one", "HTTPS://SUBGRAPH/ONE", "https://subgraph/two"}
TokenAddresses == {"0xt1", "0xT1", "0xt2"}
Configs == {Config(u, a) : u \in SubgraphUrls, a \in TokenAddresses}

CachePoolLists ==
  { <<>>,
    <<PoolUnsorted("0xp1")>>,
    << Pool("0xP1", Undefined, "100", "1000", "10",
            <<Member("m1", "0xAA", "30", Undefined)>>, None),
       PoolChanged("0xp2") >> }

CacheStart ==
  /\ cStorage \in {Storage(i, 0, NoConfig) : i \in {ItemAbsent, ItemUnparsable, ItemNoPools}}
  /\ cNow = 0
  /\ cLoad = NoLoad
  /\ cPc = "ready"

\* saveBeamrData(data, config)
CacheSave ==
  /\ cPc \in {"ready", "loaded"}
  /\ cNow < MaxSaves
  /\ \E pools \in CachePoolLists, config \in Configs, failAt \in 0..3 :
       cStorage' = saveBeamrData(cStorage, pools, config, cNow + 1, failAt)
  /\ cNow' = cNow + 1
  /\ cPc' = "ready"
  /\ cLoad' = NoLoad
  /\ UNCHANGED notCache

\* loadCachedBeamrData(config)
CacheLoad ==
  /\ cPc = "ready"
  /\ \E config \in Configs :
       cLoad' = [config |-> config, read |-> cStorage.data,
                 result |-> loadCachedBeamrData(cStorage, config)]
  /\ cPc' = "loaded"
  /\ UNCHANGED <<cStorage, cNow>>
  /\ UNCHANGED notCache

CacheNext == CacheSave \/ CacheLoad

CacheInit == CacheStart /\ MergeIdle /\ EqIdle /\ RateIdle /\ GraphIdle /\ AppIdle /\ IdentityIdle /\ CallsIdle

SpecCache == CacheInit /\ [][CacheNext]_vars

MaxPolls == 2
MaxRestarts == 1

AppUrl == "https://subgraph/one"
AppConfigs == {Config(AppUrl, "0xt1"), Config(AppUrl, "0xT1"), Config(AppUrl, "0xt2")}

\* what the subgraph may answer for a token (fetchGraph sends the token
\* address lower-cased)
FetchResults(config) ==
  IF ToLowerCase(config.tokenAddress) = "0xt1"
    THEN { <<PoolUnsorted("0xp1")>>,
           <<PoolChanged("0xP1"), PoolSorted("0xp2")>>,
           <<PoolSorted("0xp2")>> }
    ELSE { <<PoolSorted("0xp3")>> }

FetchErrors == {"Subgraph request failed: 500"}

\* localStorage as an earlier session may have left it
AppStorages ==
  { StorageEmpty,
    Storage(ItemUnparsable, 0, NoConfig),
    saveBeamrData(StorageEmpty, <<PoolUnsorted("0xp1")>>, Config(AppUrl, "0xt1"), 0, 0) }

\* a fetchBeamrData call in flight: the effect that started it and the
\* configuration it was called with
Fetch(gen, config) == [gen |-> gen, config |-> config]

\* what saveBeamrData may do in the component: complete, or throw at its
\* first setItem
SaveOutcomes == {0, 1}

\* Mutant of Live: the mounted flag is not consulted.
Live_always(f) == aPhase = "mounted"

\* the mounted flag of the effect that started the fetch
Live(f) == aPhase = "mounted" /\ f.gen = aGen

AppStart ==
  /\ aPhase = "constructed"
  /\ aConfig \in AppConfigs
  /\ aStoredConfig = aConfig
  /\ aCurrent = Null
  /\ aError = NoError
  /\ aGraph = [nodes |-> <<>>, edges |-> <<>>]
  /\ aIsInitialLoad = TRUE
  /\ aStorage \in AppStorages
  /\ aNow = 0
  /\ aGen = 0
  /\ aTimer = 0
  /\ aPolls = 0
  /\ aInFlight = EmptyBag
  /\ aPending = {}
  /\ aEvent = Event("none", TRUE)
  /\ aArrivals = NoArrivals

\* First commit: the cache-load effect, the rebuild effect (currentData is
\* still null), the fetch effect (fetchAndMerge at once, then setInterval),
\* and the rebuild effect of the render that follows.
Mount ==
  /\ aPhase = "constructed"
  /\ LET c == CacheLoadEffect(aStorage, aConfig, aGraph, aIsInitialLoad)
     IN /\ aCurrent' = c.current
        /\ aPending' = c.builds
        /\ aGraph' = c.graph
        /\ aIsInitialLoad' = c.isInitialLoad
        /\ aArrivals' = Arrivals(c.current, <<>>)
  /\ aError' = NoError
  /\ aGen' = 1
  /\ aTimer' = 1
  /\ aPolls' = 1
  /\ aInFlight' = SetToBag({Fetch(1, aConfig)})
  /\ aPhase' = "mounted"
  /\ aEvent' = Event("mount", TRUE)
  /\ UNCHANGED <<aConfig, aStoredConfig, aStorage, aNow>>
  /\ UNCHANGED notApp

\* The interval fires: fetchAndMerge up to its await.
PollTick ==
  /\ aPhase = "mounted"
  /\ aTimer = aGen
  /\ aPolls < MaxPolls
  /\ aError' = NoError
  /\ aPolls' = aPolls + 1
  /\ aInFlight' = aInFlight (+) SetToBag({Fetch(aGen, aConfig)})
  /\ aEvent' = Event("poll", TRUE)
  /\ UNCHANGED <<aPhase, aConfig, aStoredConfig, aCurrent, aGraph, aIsInitialLoad,
                 aStorage, aNow, aGen, aTimer, aPending, aArrivals>>
  /\ UNCHANGED notApp

\* fetchBeamrData resolves: fetchAndMerge after its await, the updater and
\* the rebuild effect of the render that follows.
FetchSucceeds ==
  /\ \E f \in BagToSet(aInFlight) :
       /\ aInFlight' = aInFlight (-) SetToBag({f})
       /\ aEvent' = Event("fetched", Live(f))
       /\ IF ~Live(f)
            THEN UNCHANGED <<aCurrent, aStorage, aNow, aPending, aArrivals>>
            ELSE \E newPools \in FetchResults(f.config), failAt \in SaveOutcomes :
                   LET u == setCurrentDataUpdater(aCurrent, newPools, aStorage,
                                                  f.config, aNow + 1, failAt)
                   IN /\ aCurrent' = u.current
                      /\ aStorage' = u.storage
                      /\ aNow' = IF u.saved THEN aNow + 1 ELSE aNow
                      /\ aPending' = aPending \cup RebuildEffect(u.current, u.saved)
                      /\ aArrivals' =
                           [aArrivals EXCEPT
                              !.results = Append(@, Arrival(newPools, CopiesIn(f, aInFlight) - 1))]
  /\ UNCHANGED <<aPhase, aConfig, aStoredConfig, aError, aGraph, aIsInitialLoad,
                 aGen, aTimer, aPolls>>
  /\ UNCHANGED notApp

\* fetchBeamrData rejects: the catch block of fetchAndMerge.
FetchFails ==
  /\ \E f \in BagToSet(aInFlight), message \in FetchErrors :
       /\ aInFlight' = aInFlight (-) SetToBag({f})
       /\ aError' = catchFetchError(aError, Live(f), message)
       /\ aEvent' = Event("fetchFailed", Live(f))
  /\ UNCHANGED <<aPhase, aConfig, aStoredConfig, aCurrent, aGraph, aIsInitialLoad,
                 aStorage, aNow, aGen, aTimer, aPolls, aPending, aArrivals>>
  /\ UNCHANGED notApp

\* handleRetry (the button of the error screen): the fetch effect is cleaned
\* up and set up again, which calls fetchAndMerge at once.
Retry ==
  /\ aPhase = "mounted"
  /\ aError # NoError
  /\ aGen <= MaxRestarts
  /\ aPolls < MaxPolls
  /\ aError' = NoError
  /\ aGen' = aGen + 1
  /\ aTimer' = aGen + 1
  /\ aPolls' = aPolls + 1
  /\ aInFlight' = aInFlight (+) SetToBag({Fetch(aGen + 1, aConfig)})
  /\ aEvent' = Event("retry", TRUE)
  /\ UNCHANGED <<aPhase, aConfig, aStoredConfig, aCurrent, aGraph, aIsInitialLoad,
                 aStorage, aNow, aPending, aArrivals>>
  /\ UNCHANGED notApp

\* showEmptyState
ShowEmptyState == ~aIsInitialLoad /\ aError = NoError /\ Len(aGraph.nodes) = 0

\* handleSaveConfig (the settings panel is on the error screen and on the
\* empty-state overlay): saveBeamrConfig, setConfig with a new object, then
\* the effects that depend on config: the fetch effect's cleanup, the
\* cache-load effect, the fetch effect, and the rebuild effect of the render
\* that follows.
SaveConfig ==
  /\ aPhase = "mounted"
  /\ aError # NoError \/ ShowEmptyState
  /\ aGen <= MaxRestarts
  /\ aPolls < MaxPolls
  /\ \E cleaned \in AppConfigs :
       /\ aStoredConfig' = cleaned
       /\ aConfig' = cleaned
       /\ LET c == CacheLoadEffect(aStorage, cleaned, aGraph, aIsInitialLoad)
          IN /\ aCurrent' = c.current
             /\ aPending' = aPending \cup c.builds
             /\ aGraph' = c.graph
             /\ aIsInitialLoad' = c.isInitialLoad
             /\ aArrivals' = Arrivals(c.current, <<>>)
       /\ aInFlight' = aInFlight (+) SetToBag({Fetch(aGen + 1, cleaned)})
  /\ aError' = NoError
  /\ aGen' = aGen + 1
  /\ aTimer' = aGen + 1
  /\ aPolls' = aPolls + 1
  /\ aEvent' = Event("saveConfig", TRUE)
  /\ UNCHANGED <<aPhase, aStorage, aNow>>
  /\ UNCHANGED notApp

\* A buildGraphElements promise settles: the continuation sets nodes and
\* edges; a rejected promise has no continuation.
BuildSettles ==
  /\ \E b \in aPending :
       /\ aPending' = aPending \ {b}
       /\ LET r == EdgePass(b.pools)
          IN IF aPhase = "mounted" /\ r.status = "built"
               THEN /\ aGraph' = [nodes |-> r.nodes, edges |-> r.edges]
                    /\ aIsInitialLoad' = (aIsInitialLoad /\ ~b.fromCache)
               ELSE UNCHANGED <<aGraph, aIsInitialLoad>>
       /\ aEvent' = Event("built", aPhase = "mounted")
  /\ UNCHANGED <<aPhase, aConfig, aStoredConfig, aCurrent, aError, aStorage, aNow,
                 aGen, aTimer, aPolls, aInFlight, aArrivals>>
  /\ UNCHANGED notApp

\* The component unmounts: the fetch effect's cleanup.
Unmount ==
  /\ aPhase = "mounted"
  /\ aPhase' = "unmounted"
  /\ aTimer' = 0
  /\ aEvent' = Event("unmount", TRUE)
  /\ UNCHANGED <<aConfig, aStoredConfig, aCurrent, aError, aGraph, aIsInitialLoad,
                 aStorage, aNow, aGen, aPolls, aInFlight, aPending, aArrivals>>
  /\ UNCHANGED notApp

AppNext ==
  \/ Mount
  \/ PollTick
  \/ FetchSucceeds
  \/ FetchFails
  \/ Retry
  \/ SaveConfig
  \/ BuildSettles
  \/ Unmount

AppInit ==
  AppStart /\ MergeIdle /\ EqIdle /\ RateIdle /\ GraphIdle /\ CacheIdle /\ IdentityIdle /\ CallsIdle

SpecApp == AppInit /\ [][AppNext]_vars

aPoolIds == PoolIds(aCurrent.pools)

\* C6: when fetchBeamrData rejects during a poll cycle, the pool collection
\* held in memory and the persisted snapshot are exactly what they were
\* before (no merge, no save, no graph rebuild: no buildGraphElements call is
\* started and nodes and edges stay); if the cycle belongs to the fetch
\* effect now set up, the rejection's message becomes the error state; and
\* the interval of the effect now set up keeps running, so later poll cycles
\* still start.
C6_FailedFetchSkipsCycle ==
  [][ aEvent'.name = "fetchFailed" =>
        /\ aCurrent' = aCurrent
        /\ aStorage' = aStorage
        /\ aNow' = aNow
        /\ aPending' = aPending
        /\ aGraph' = aGraph
        /\ aEvent'.live => aError' \in FetchErrors
        /\ aPhase' = "mounted" => (aTimer' = aGen' /\ aTimer' # 0)
    ]_vars

C6_Witness ==
  /\ aEvent = Event("fetchFailed", TRUE)
  /\ aCurrent.found
  /\ aStorage.data.kind = "snapshot"
  /\ aError \in FetchErrors
  /\ aTimer = aGen
  /\ aPolls < MaxPolls

\* C7 as stated: over every event of the running component, configuration
\* changes included, the pool ids held after the event are a superset of
\* the pool ids held before it.
C7_NonShrinking ==
  [][aPoolIds \subseteq aPoolIds']_vars

\* C7, amended: over every event other than a configuration change (cache
\* load on mount, polls that succeed, polls that fail, retries, builds that
\* settle, unmounting) the pool ids held after the event are a superset of
\* the pool ids held before it; so between two configuration changes the
\* set held at a later point contains the set held at any earlier point.
C7_NonShrinkingWithinConfiguration ==
  [][aEvent'.name # "saveConfig" => aPoolIds \subseteq aPoolIds']_vars

C7_Witness ==
  /\ aEvent = Event("fetched", TRUE)
  /\ aPoolIds = {"0xp1", "0xp2"}
  /\ aGen = 2
  /\ aStorage.data.kind = "snapshot"
  /\ Len(aStorage.data.pools) = 2

\* the snapshots saveBeamrData may leave for the collection now held
aSnapshotsOf(storage, pools, config, now) ==
  {saveBeamrData(storage, pools, config, now, failAt) : failAt \in SaveOutcomes}

\* C19: the steps of a poll cycle come one after the other.  Starting a
\* cycle merges, persists and builds nothing; the collection held changes,
\* outside the cache load of a mount or configuration change, only when a
\* fetch of the effect now set up has succeeded; localStorage is written
\* only in that step, by saveBeamrData called with the collection as merged;
\* a build started in that step is a build of that merged collection, after
\* saveBeamrData has run for it.  While builds are pending, identity
\* resolution included, the interval can still start the next cycle.
C19_PollCycleOrdering ==
  /\ [][ /\ aEvent'.name = "poll" =>
              (aCurrent' = aCurrent /\ aStorage' = aStorage /\ aPending' = aPending)
         /\ aCurrent' # aCurrent =>
              (aEvent' = Event("fetched", TRUE) \/ aEvent'.name \in {"mount", "saveConfig"})
         /\ aStorage' # aStorage =>
              /\ aEvent' = Event("fetched", TRUE)
              /\ aStorage' = saveBeamrData(aStorage, aCurrent'.pools, aConfig, aNow', 0)
         /\ (aEvent'.name = "fetched" /\ aPending' # aPending) =>
              /\ aEvent'.live
              /\ aPending' = aPending \cup {Build(aCurrent'.pools, FALSE)}
              /\ aNow' = aNow + 1
              /\ aStorage' \in aSnapshotsOf(aStorage, aCurrent'.pools, aConfig, aNow')
       ]_vars
  /\ []((aPhase = "mounted" /\ aPending # {} /\ aPolls < MaxPolls) => ENABLED PollTick)

C19_Witness ==
  /\ aEvent = Event("poll", TRUE)
  /\ aCurrent.found
  /\ Len(aCurrent.pools) = 2
  /\ Build(aCurrent.pools, FALSE) \in aPending
  /\ aStorage = saveBeamrData(aStorage, aCurrent.pools, aConfig, aNow, 0)
  /\ aNow >= 1

\* a pool is wholly the version v: the same field values and the same
\* members and distributors, in whatever order
aWhollyVersion(p, v) ==
  /\ p.id = v.id /\ p.admin = v.admin /\ p.totalUnits = v.totalUnits
  /\ p.flowRate = v.flowRate /\ p.perUnitFlowRate = v.perUnitFlowRate
  /\ (p.poolDistributors = None) = (v.poolDistributors = None)
  /\ SameEntries(p.poolMembers, v.poolMembers)
  /\ SameEntries(OrEmpty(p.poolDistributors), OrEmpty(v.poolDistributors))

\* the pools with a given id in a collection
aVersionsIn(pools, id) == {pools[k] : k \in {j \in DOMAIN pools : ToLowerCase(pools[j].id) = id}}

\* the arrivals that delivered a pool with the id
aArrivalsWith(id) ==
  {k \in DOMAIN aArrivals.results : id \in PoolIds(aArrivals.results[k].pools)}

\* the versions of a pool that count as the one held: the version of the
\* latest arrival that delivered the id, or the prior one when none did
aWinningVersions(id) ==
  IF aArrivalsWith(id) = {} THEN aVersionsIn(aArrivals.prior.pools, id)
  ELSE aVersionsIn(
         aArrivals.results[CHOOSE k \in aArrivalsWith(id) :
                             \A j \in aArrivalsWith(id) : j <= k].pools, id)

\* every version of the id that was there before or was delivered
aAllVersions(id) ==
  aVersionsIn(aArrivals.prior.pools, id)
    \cup UNION {aVersionsIn(aArrivals.results[k].pools, id) : k \in DOMAIN aArrivals.results}

\* C20: after the results of the fetches of one configuration have arrived,
\* in whatever order and also when the fetches were in flight together, the
\* collection held has exactly the pool ids of the prior collection and of
\* all results, each id once; every pool held is wholly one of the versions
\* that were there or were delivered, and it is equal to the version of the
\* latest arrival that delivered its id.
C20_OverlappingPollCycles ==
  aArrivals.results # <<>> =>
    /\ aCurrent.found
    /\ aPoolIds = PoolIds(aArrivals.prior.pools)
                    \cup UNION {PoolIds(aArrivals.results[k].pools) :
                                 k \in DOMAIN aArrivals.results}
    /\ Cardinality(aPoolIds) = Len(aCurrent.pools)
    /\ \A k \in DOMAIN aCurrent.pools :
         LET p == aCurrent.pools[k]
             id == ToLowerCase(p.id)
         IN /\ \E v \in aAllVersions(id) : aWhollyVersion(p, v)
            /\ \E v \in aWinningVersions(id) : EqualIgnoringOrder(p, v)

C20_Witness ==
  /\ aPhase = "mounted"
  /\ Len(aArrivals.results) = 2
  /\ aArrivals.results[1].others >= 1
  /\ aArrivals.prior.found
  /\ aArrivals.results[1].pools # aArrivals.results[2].pools
  /\ \E id \in PoolIds(aArrivals.results[1].pools) \cap PoolIds(aArrivals.results[2].pools) :
       \A v \in aVersionsIn(aArrivals.results[1].pools, id),
          w \in aVersionsIn(aArrivals.results[2].pools, id) : ~EqualIgnoringOrder(v, w)
  /\ Cardinality(aPoolIds) = 2

(***************************************************************************)
(* SpecIdentity: one resolveNeynarProfiles call, from the cache read to    *)
(* the settling of its promise, with every lookup free to succeed, to      *)
(* answer with a non-2xx status, to fail on the network or to send a body  *)
(* that cannot be used.                                                    *)
(***************************************************************************)
\* what the remote service knows, by lower-case address
Directory ==
  [a \in {"0xaa", "0xbb"} |->
     IF a = "0xaa" THEN Profile("alice", "https://img/alice") ELSE Profile("bob", Undefined)]

\* the service spells addresses its own way
Spelled(address) == IF address = "0xaa" THEN "0xAA" ELSE address

\* custody_address and verified_addresses.eth_addresses of the user found
\* for an address
UserAddresses(address) == IF address = "0xaa" THEN <<"0xAA", "0xDD">> ELSE <<address>>

OkKinds == {"full", "users", "empty", "malformed"}
FailKinds == {"status", "network", "body"}
LookupOutcomes == OkKinds \cup FailKinds

\* the entries of a 2xx answer for a batch: one { address, user } per
\* address ("full"), bare users with all their addresses ("users"), nothing
\* ("empty"), or the full entries followed by one whose address is no string
RECURSIVE PayloadEntries(_, _)
PayloadEntries(kind, batch) ==
  IF kind = "empty" \/ batch = <<>> THEN
    IF kind = "malformed" THEN <<MalformedEntry>> ELSE <<>>
  ELSE
    LET a == Head(batch)
        rest == PayloadEntries(kind, Tail(batch))
    IN IF kind = "users"
         THEN IF a \in DOMAIN Directory
                THEN <<UserEntry(Directory[a], UserAddresses(a))>> \o rest
                ELSE rest
         ELSE <<KeyedEntry(Spelled(a),
                           IF a \in DOMAIN Directory THEN Directory[a]
                           ELSE Profile(Undefined, Undefined),
                           IF a \in DOMAIN Directory THEN UserAddresses(a) ELSE <<>>)>> \o rest

\* the results of Promise.all, entries of all batches in batch order
BatchEntries(batches, outcomes) ==
  Concat([b \in DOMAIN batches |->
            IF outcomes[b] \in OkKinds THEN PayloadEntries(outcomes[b], batches[b]) ELSE <<>>])

\* the entries of the batch lookups that answered with a well-formed body
GoodEntries(batches, outcomes) ==
  Concat([b \in DOMAIN batches |->
            IF outcomes[b] \in {"full", "users"} THEN PayloadEntries(outcomes[b], batches[b])
            ELSE <<>>])

Request(endpoint, addresses) == [endpoint |-> endpoint, addresses |-> addresses]

Requests(endpoint, batches) == [b \in DOMAIN batches |-> Request(endpoint, batches[b])]

\* a lookup that has settled: the request and its outcome
Settled(endpoint, addresses, outcome) ==
  [endpoint |-> endpoint, addresses |-> addresses, outcome |-> outcome]

SettledBatches(endpoint, batches, outcomes) ==
  [b \in DOMAIN batches |-> Settled(endpoint, batches[b], outcomes[b])]

\* resolveNeynarProfiles up to its first await (lines 265-291): the mapping
\* it starts from, the addresses to look up, and where it goes next
StartStep(addresses, stored, now) ==
  LET unique == UniqueLower(addresses, {})
      cache == readProfileCache(stored, now)
      remaining == Missing(unique, cache)
  IN IF unique = <<>> THEN [mapping |-> EmptyMap, remaining |-> <<>>, next |-> "return"]
     ELSE [mapping |-> cache, remaining |-> remaining,
           next |-> IF remaining = <<>> THEN "return" ELSE "proxy"]

\* after the proxy lookups settled (lines 293-349): all answered 2xx and
\* their entries were filed: write the cache and return; else the catch,
\* and then return without a key, the direct lookups with one
ProxyStep(mapping, remaining, key, batchEnv, outcomes) ==
  LET batches == chunk(remaining, BatchSize(batchEnv))
      allOk == \A b \in DOMAIN batches : outcomes[b] \in OkKinds
      filed == IF allOk THEN ApplyEntries(mapping, BatchEntries(batches, outcomes))
               ELSE [mapping |-> mapping, thrown |-> TRUE]
  IN [mapping |-> filed.mapping,
      next |-> IF ~filed.thrown THEN "returnWrite" ELSE IF ~key THEN "return" ELSE "direct"]

\* after the direct lookups settled (lines 359-406): a lookup that failed
\* on the network or on its body, or an entry that throws, rejects the
\* call; else the entries are filed and stillMissing is computed
DirectStep(mapping, remaining, batchEnv, outcomes) ==
  LET batches == chunk(remaining, BatchSize(batchEnv))
      rejected == \E b \in DOMAIN batches : outcomes[b] \in {"network", "body"}
      filed == ApplyEntries(mapping, BatchEntries(batches, outcomes))
      stillMissing == Missing(remaining, filed.mapping)
  IN IF rejected THEN [mapping |-> mapping, still |-> <<>>, next |-> "reject"]
     ELSE [mapping |-> filed.mapping,
           still |-> IF filed.thrown THEN <<>> ELSE stillMissing,
           next |-> IF filed.thrown THEN "reject"
                    ELSE IF stillMissing = <<>> THEN "returnWrite" ELSE "singles"]

\* one turn of the loop over stillMissing (lines 407-416, fetchSingleProfile
\* 155-196): the mapping after the lookup of address; the first entry with a
\* name or an avatar decides, and whatever throws is ignored
SingleStep(mapping, address, outcome) ==
  LET entries == IF outcome \in OkKinds
                   THEN PayloadEntries(outcome, <<address>>) ELSE <<>>
      found == {k \in DOMAIN entries : HasIdentity(entries[k].profile)}
  IN IF found = {} THEN mapping
     ELSE LET entry == entries[CHOOSE k \in found : \A j \in found : k <= j]
          IN IF entry.kind = "malformed" THEN mapping
             ELSE MapSet(mapping,
                         IF entry.kind = "keyed" THEN ToLowerCase(entry.address)
                         ELSE ToLowerCase(address),
                         entry.profile)

IdentityAddressLists ==
  { <<>>, <<"0xaa">>, <<"0xAA", "0xbb", "0xaa">>, <<"0xbb", "0xcc">> }

IdentityStart == FARCASTER_CACHE_TTL + 100

\* the cache as an earlier call may have left it: nothing, a damaged value,
\* profiles written exactly the time to live ago, profiles written a second
\* earlier
IdentityCaches ==
  { CachedProfiles("absent", 0, EmptyMap),
    CachedProfiles("unparsable", 0, EmptyMap),
    CachedProfiles("object", 100, [a \in {"0xbb"} |-> Profile("bobby", Undefined)]),
    CachedProfiles("object", 99, [a \in {"0xbb"} |-> Profile("bobby", Undefined)]) }

IdentityInitial ==
  /\ iAddresses \in IdentityAddressLists
  /\ iKey \in BOOLEAN
  /\ iBatchEnv \in {Undefined, "1", "abc"}
  /\ iStored \in IdentityCaches
  /\ iNow = IdentityStart
  /\ iMapping = EmptyMap
  /\ iRemaining = <<>>
  /\ iStill = <<>>
  /\ iLog = <<>>
  /\ iObtained = EmptyMap
  /\ iSettled = <<>>
  /\ iResult = Promise("none", EmptyMap)
  /\ iPc = "start"

\* the function returns mapping; writeProfileCache runs before when asked
Fulfil(mapping, write) ==
  /\ iResult' = Promise("fulfilled", mapping)
  /\ iPc' = "settled"
  /\ IF write
       THEN \E fails \in BOOLEAN :
              iStored' = writeProfileCache(iStored, mapping, iNow, fails)
       ELSE UNCHANGED iStored

Reject ==
  /\ iResult' = Promise("rejected", EmptyMap)
  /\ iPc' = "settled"
  /\ UNCHANGED iStored

\* resolveNeynarProfiles(addresses) up to its first await (lines 265-306)
CallResolve ==
  /\ iPc = "start"
  /\ LET s == StartStep(iAddresses, iStored, iNow)
     IN /\ iMapping' = s.mapping
        /\ iObtained' = s.mapping
        /\ iRemaining' = s.remaining
        /\ IF s.next = "return"
             THEN /\ Fulfil(s.mapping, FALSE)
                  /\ UNCHANGED iLog
             ELSE /\ iLog' = Requests("proxy", chunk(s.remaining, BatchSize(iBatchEnv)))
                  /\ iResult' = Promise("pending", EmptyMap)
                  /\ iPc' = "proxy"
                  /\ UNCHANGED iStored
  /\ UNCHANGED <<iAddresses, iKey, iBatchEnv, iNow, iStill, iSettled>>
  /\ UNCHANGED notIdentity

\* the proxy lookups settle (lines 293-349): when all answered 2xx their
\* entries are filed, the cache is written and the function returns; a
\* failed lookup, or an entry that throws, leads to the catch, after which
\* the function returns the mapping if no key is configured and starts the
\* direct batch lookups otherwise
ProxySettles ==
  /\ iPc = "proxy"
  /\ LET batches == chunk(iRemaining, BatchSize(iBatchEnv))
     IN \E outcomes \in [DOMAIN batches -> LookupOutcomes] :
          LET s == ProxyStep(iMapping, iRemaining, iKey, iBatchEnv, outcomes)
          IN /\ iMapping' = s.mapping
             /\ iObtained' = ApplyEntries(iObtained, GoodEntries(batches, outcomes)).mapping
             /\ iSettled' = iSettled \o SettledBatches("proxy", batches, outcomes)
             /\ IF s.next = "direct"
                  THEN /\ iLog' = iLog \o Requests("direct", batches)
                       /\ iPc' = "direct"
                       /\ UNCHANGED <<iResult, iStored>>
                  ELSE /\ Fulfil(s.mapping, s.next = "returnWrite")
                       /\ UNCHANGED iLog
  /\ iNow' = iNow + 1
  /\ UNCHANGED <<iAddresses, iKey, iBatchEnv, iRemaining, iStill>>
  /\ UNCHANGED notIdentity

\* the direct lookups settle (lines 365-421): a non-2xx answer counts as no
\* entries; a network failure or an unusable body rejects Promise.all, and
\* an entry that throws is not caught either; otherwise the entries are filed
\* and the single lookups begin for the addresses still missing
DirectSettles ==
  /\ iPc = "direct"
  /\ LET batches == chunk(iRemaining, BatchSize(iBatchEnv))
     IN \E outcomes \in [DOMAIN batches -> LookupOutcomes] :
          LET s == DirectStep(iMapping, iRemaining, iBatchEnv, outcomes)
              rejected == \E b \in DOMAIN batches : outcomes[b] \in {"network", "body"}
          IN /\ iSettled' = iSettled \o SettledBatches("direct", batches, outcomes)
             /\ iMapping' = s.mapping
             /\ iStill' = s.still
             /\ iObtained' =
                  IF rejected THEN iObtained
                  ELSE ApplyEntries(iObtained, GoodEntries(batches, outcomes)).mapping
             /\ IF s.next = "reject" THEN Reject
                ELSE IF s.next = "returnWrite" THEN Fulfil(s.mapping, TRUE)
                ELSE /\ iPc' = "singles"
                     /\ UNCHANGED <<iResult, iStored>>
  /\ iNow' = iNow + 1
  /\ UNCHANGED <<iAddresses, iKey, iBatchEnv, iRemaining, iLog>>
  /\ UNCHANGED notIdentity

\* one turn of the loop over stillMissing (lines 408-418): fetchSingleProfile
\* for the next address; whatever fails is ignored; after the last address
\* the cache is written and the function returns
SingleLookup ==
  /\ iPc = "singles"
  /\ \E outcome \in LookupOutcomes :
       LET address == Head(iStill)
           mapping == SingleStep(iMapping, address, outcome)
       IN /\ iMapping' = mapping
          /\ iLog' = Append(iLog, Request("single", <<address>>))
          /\ iSettled' = Append(iSettled, Settled("single", <<address>>, outcome))
          /\ iStill' = Tail(iStill)
          /\ IF Tail(iStill) = <<>>
               THEN Fulfil(mapping, TRUE)
               ELSE UNCHANGED <<iResult, iStored, iPc>>
  /\ iNow' = iNow + 1
  /\ UNCHANGED <<iAddresses, iKey, iBatchEnv, iRemaining, iObtained>>
  /\ UNCHANGED notIdentity

IdentityNext ==
  \/ CallResolve
  \/ ProxySettles
  \/ DirectSettles
  \/ SingleLookup

IdentityInit ==
  /\ IdentityInitial
  /\ MergeIdle /\ EqIdle /\ RateIdle /\ GraphIdle /\ CacheIdle /\ AppIdle /\ CallsIdle

SpecIdentity == IdentityInit /\ [][IdentityNext]_vars

\* C15: the promise resolveNeynarProfiles returns never rejects, whatever
\* the proxy batch lookups, the direct batch lookups and the single lookups
\* do (non-2xx status, network failure, unusable body).
C15_NeverRaises ==
  iResult.status # "rejected"

\* C16: when resolveNeynarProfiles returns a mapping, the mapping has a
\* profile for every address for which the cache or a batch lookup that
\* succeeded in this call gave one, also when other lookups of the call
\* failed.
C16_PartialFailuresPreserve ==
  iResult.status = "fulfilled" =>
    \A a \in DOMAIN iObtained : a \in DOMAIN iResult.value

\* the place of an endpoint in the fallback chain
iRank(endpoint) == IF endpoint = "proxy" THEN 1 ELSE IF endpoint = "direct" THEN 2 ELSE 3

iRequestsTo(endpoint) == {k \in DOMAIN iLog : iLog[k].endpoint = endpoint}

iSettledAt(endpoint) == {k \in DOMAIN iSettled : iSettled[k].endpoint = endpoint}

\* a lookup failed: non-2xx status, network failure, or a body or entry
\* that cannot be used
iLookupFailed(s) == s.outcome \notin {"full", "users", "empty"}

\* a settled lookup delivered an identity for the address
iDelivered(s, address) ==
  /\ s.outcome \in OkKinds
  /\ \E k \in DOMAIN PayloadEntries(s.outcome, s.addresses) :
       LET entry == PayloadEntries(s.outcome, s.addresses)[k]
       IN /\ HasIdentity(entry.profile)
          /\ \/ entry.kind = "keyed" /\ ToLowerCase(entry.address) = address
             \/ /\ entry.kind = "user"
                /\ \E j \in DOMAIN entry.addresses : ToLowerCase(entry.addresses[j]) = address

\* C22: the requests of one resolveNeynarProfiles call go to the proxy
\* first, then to the direct endpoint, then to single lookups.  The direct
\* endpoint is contacted only with a key configured and after a proxy batch
\* lookup has failed; a single lookup is issued only after the direct
\* batches have settled, once per address, and only for an address that was
\* looked up and for which no direct batch delivered an identity; when
\* every proxy batch succeeds, the call returns with no request to the
\* direct endpoint and no single lookup.
C22_FallbackOrder ==
  /\ \A j, k \in DOMAIN iLog : j < k => iRank(iLog[j].endpoint) <= iRank(iLog[k].endpoint)
  /\ iRequestsTo("direct") # {} =>
       /\ iKey
       /\ \E k \in iSettledAt("proxy") : iLookupFailed(iSettled[k])
  /\ \A k \in iRequestsTo("single") :
       LET address == iLog[k].addresses[1]
       IN /\ iRequestsTo("direct") # {}
          /\ Cardinality(iSettledAt("direct")) = Cardinality(iRequestsTo("direct"))
          /\ \E j \in iRequestsTo("direct") :
               \E n \in DOMAIN iLog[j].addresses : iLog[j].addresses[n] = address
          /\ \A j \in iSettledAt("direct") : ~iDelivered(iSettled[j], address)
          /\ \A j \in iRequestsTo("single") : iLog[j].addresses[1] = address => j = k
  /\ (iSettledAt("proxy") # {} /\ \A k \in iSettledAt("proxy") : ~iLookupFailed(iSettled[k])) =>
       /\ iResult.status = "fulfilled"
       /\ iRequestsTo("direct") = {}
       /\ iRequestsTo("single") = {}

C22_Witness ==
  /\ iResult.status = "fulfilled"
  /\ Cardinality(iRequestsTo("proxy")) = 2
  /\ Cardinality(iRequestsTo("direct")) = 2
  /\ Cardinality(iRequestsTo("single")) = 1
  /\ \E k \in iSettledAt("direct") : iSettled[k].outcome = "full" /\ iSettled[k].addresses = <<"0xaa">>

\* the identities a settled lookup resolved: the profile and every address
\* associated with it, lower-cased
iIdentities(s) ==
  IF s.outcome \notin {"full", "users"} THEN {}
  ELSE LET entries == PayloadEntries(s.outcome, s.addresses)
       IN { [profile |-> entries[k].profile,
             addresses |-> {ToLowerCase(entries[k].addresses[j]) :
                              j \in DOMAIN entries[k].addresses}] :
            k \in {n \in DOMAIN entries : HasIdentity(entries[n].profile)} }

\* C24: when a call has returned, then for every identity a lookup of the
\* call resolved, in whatever response shape, the returned mapping holds
\* that profile under every address associated with the identity, and so
\* does the cache if the call has written it.
C24_MultiAddressIdentities ==
  iResult.status = "fulfilled" =>
    \A k \in DOMAIN iSettled :
      \A identity \in iIdentities(iSettled[k]) :
        \A a \in identity.addresses :
          /\ a \in DOMAIN iResult.value
          /\ iResult.value[a] = identity.profile
          /\ iStored.updatedAt >= IdentityStart =>
               (a \in DOMAIN iStored.profiles /\ iStored.profiles[a] = identity.profile)




\* the lower-cased addresses that take part in data: every distributor, and
\* every member that is connected and holds units
gParticipants ==
  UNION { {ToLowerCase(OrEmpty(gData[p].poolDistributors)[d].account) :
             d \in DOMAIN OrEmpty(gData[p].poolDistributors)}
          \cup {ToLowerCase(gData[p].poolMembers[m].account) :
                  m \in {n \in DOMAIN gData[p].poolMembers :
                           /\ gData[p].poolMembers[n].isConnected # "false"
                           /\ safeBigInt(gData[p].poolMembers[n].units) > 0}}
          : p \in DOMAIN gData }

\* the pools of data in which the address is a distributor
gDistributes(address) ==
  {p \in DOMAIN gData :
     \E d \in DOMAIN OrEmpty(gData[p].poolDistributors) :
       ToLowerCase(OrEmpty(gData[p].poolDistributors)[d].account) = address}

\* the address occurs first as a member of a pool that comes before every
\* pool in which it is a distributor
gFirstSeenAsMember(address) ==
  \E p \in DOMAIN gData :
    /\ \E m \in DOMAIN gData[p].poolMembers :
         /\ ToLowerCase(gData[p].poolMembers[m].account) = address
         /\ gData[p].poolMembers[m].isConnected # "false"
         /\ safeBigInt(gData[p].poolMembers[m].units) > 0
    /\ gDistributes(address) # {}
    /\ \A q \in gDistributes(address) : p < q

\* C30: a graph that buildGraphElements returns has exactly one node for
\* each lower-cased participant address and no two nodes with one id, every
\* edge runs between ids of its nodes, and the distributedPools of a node
\* name every pool in which the node's address is a distributor, also when
\* the node was created for a member of an earlier pool.
C30_GraphWellFormed ==
  gPc = "done" =>
    /\ {gNodes[k].node.address : k \in DOMAIN gNodes} = gParticipants
    /\ \A i, j \in DOMAIN gNodes : gNodes[i].node.id = gNodes[j].node.id => i = j
    /\ \A k \in DOMAIN gNodes :
         gNodes[k].node.id = makeAccountNodeId(gNodes[k].node.address)
    /\ \A e \in DOMAIN gResult.edges :
         /\ \E k \in DOMAIN gNodes : gNodes[k].node.id = gResult.edges[e].source
         /\ \E k \in DOMAIN gNodes : gNodes[k].node.id = gResult.edges[e].target
    /\ \A k \in DOMAIN gNodes :
         LET listed == gNodes[k].node.distributedPools
         IN \A p \in gDistributes(gNodes[k].node.address) :
              /\ listed # Undefined
              /\ \E n \in DOMAIN listed : listed[n].address = ToLowerCase(gData[p].id)

\* a returned graph with a node that was created for a member of the first
\* pool and whose address distributes the second pool
C30_Witness ==
  /\ gPc = "done"
  /\ Len(gData) = 2
  /\ \E k \in DOMAIN gNodes :
       /\ gFirstSeenAsMember(gNodes[k].node.address)
       /\ gNodes[k].node.distributedPools # Undefined
       /\ Len(gNodes[k].node.distributedPools) = 1
       /\ gNodes[k].node.distributedPools[1].address = ToLowerCase(gData[2].id)

\* the node and edge sets a build of pools hands to setNodes and setEdges
aBuilt(pools) ==
  LET r == EdgePass(pools) IN [nodes |-> r.nodes, edges |-> r.edges]

\* a graph as a set of nodes and a set of edges
aSets(graph) ==
  [nodes |-> {graph.nodes[k] : k \in DOMAIN graph.nodes},
   edges |-> {graph.edges[k] : k \in DOMAIN graph.edges}]

\* C25: once no buildGraphElements call is pending, the nodes and edges
\* displayed are those built from the pool collection now held, whatever
\* order the builds of the cached snapshot, of older collections and of
\* collections of a previous configuration settled in.
C25_LatestBuildDisplayed ==
  (aPhase = "mounted" /\ aPending = {} /\ aCurrent.found) =>
    /\ EdgePass(aCurrent.pools).status = "built"
    /\ aSets(aGraph) = aSets(aBuilt(aCurrent.pools))


\* C27: the pool collection held never contains two pools whose ids are
\* equal when compared case-insensitively, given that the snapshot loaded
\* and every fetched collection contain none (as AppStorages and
\* FetchResults do), after any sequence of poll cycles.
C27_PoolIdsUnique ==
  aCurrent.found =>
    \A i, j \in DOMAIN aCurrent.pools :
      i # j => ToLowerCase(aCurrent.pools[i].id) # ToLowerCase(aCurrent.pools[j].id)

\* a snapshot was loaded, two fetched collections have been merged into it,
\* one of them spelling the id of a pool held in another letter case
C27_Witness ==
  /\ aArrivals.prior.found
  /\ Len(aArrivals.results) >= 2
  /\ Len(aCurrent.pools) = 2
  /\ \E k \in DOMAIN aCurrent.pools : aCurrent.pools[k].id = "0xP1"


\* the pools that belong to a configuration: what the subgraph may answer
\* for its token, and what an earlier session stored under it
aPoolsUnder(config) ==
  UNION {{r[k] : k \in DOMAIN r} : r \in FetchResults(config)}
    \cup UNION {{c.pools[k] : k \in DOMAIN c.pools} :
                  c \in {loadCachedBeamrData(s, config) : s \in AppStorages}}

\* every pool of the collection is wholly a pool of the configuration
aHeldUnder(pools, config) ==
  LET under == aPoolsUnder(config)
  IN \A k \in DOMAIN pools : \E v \in under : aWhollyVersion(pools[k], v)

\* C28: the result of a fetch started by a fetch effect that has been
\* cleaned up since (configuration change, retry, unmount) is discarded
\* when it arrives: collection, snapshot, builds and error state stay.  So
\* the collection held consists of pools loaded or fetched under the
\* configuration in force, and the snapshot of pools loaded or fetched
\* under the configuration stored with it.  At most the timer of the effect
\* now set up is running, and a tick starts a fetch of that effect under the
\* configuration in force.
C28_SupersededResultsDropped ==
  /\ [][ /\ aEvent' \in {Event("fetched", FALSE), Event("fetchFailed", FALSE)} =>
              /\ aCurrent' = aCurrent /\ aStorage' = aStorage
              /\ aPending' = aPending /\ aError' = aError
         /\ aEvent'.name = "poll" =>
              aInFlight' = aInFlight (+) SetToBag({Fetch(aGen, aConfig)})
       ]_vars
  /\ [](/\ aCurrent.found => aHeldUnder(aCurrent.pools, aConfig)
        /\ aStorage.data.kind = "snapshot" =>
             aHeldUnder(ParsePools(aStorage.data.pools), aStorage.data.config)
        /\ aTimer \in {0, aGen}
        /\ aPhase = "unmounted" => aTimer = 0
        /\ \A f \in BagToSet(aInFlight) : f.gen = aGen => f.config = aConfig)

\* after a configuration change the result of a fetch of the effect that
\* was cleaned up has arrived, later than the first result of the new
\* effect, and was dropped
C28_Witness ==
  /\ aEvent = Event("fetched", FALSE)
  /\ aPhase = "mounted"
  /\ aGen = 2
  /\ ToLowerCase(aConfig.tokenAddress) = "0xt2"
  /\ aCurrent.found
  /\ aStorage.data.kind = "snapshot"
  /\ aStorage.data.config = aConfig


\* hasBeamrDataChanges(prev, fetched) as the updater calls it
aFindsChange(prev, fetched) ==
  hasBeamrDataChanges(prev \o fetched, Refs(0, Len(prev)), Refs(Len(prev), Len(fetched))).res

\* C29: a poll cycle whose fetch succeeds while a collection is held and
\* hasBeamrDataChanges(held, fetched) is false leaves the collection held
\* as it was, down to the order of every pool's members and distributors,
\* does not write the snapshot and starts no build.
C29_NoChangeNoEffect ==
  [][ ( /\ aEvent' = Event("fetched", TRUE)
        /\ aCurrent.found
        /\ Len(aArrivals'.results) = Len(aArrivals.results) + 1
        /\ ~aFindsChange(aCurrent.pools,
                         aArrivals'.results[Len(aArrivals'.results)].pools) )
      => /\ aCurrent' = aCurrent
         /\ aStorage' = aStorage
         /\ aPending' = aPending
    ]_vars

\* ---------------------------------------------------------------------
\* Several resolveNeynarProfiles calls over one persisted profile cache
\* (src/lib/farcaster.ts 265-422, 125-153): each call reads the cache
\* when it starts, keeps its own mapping across its awaits, and writes
\* the whole mapping back when it returns after a lookup.

MaxCalls == 2
MaxPasses == 2

\* what a lookup of these calls can answer
CallOutcomes == {"full", "status", "network"}

CallAddressLists == {<<"0xaa">>, <<"0xbb">>, <<"0xAA", "0xbb">>}

\* time passes by a little more than half the TTL
HalfTtl == FARCASTER_CACHE_TTL \div 2 + 1

CallsEpoch == 100

\* one call: where it stands, its arguments and its locals; served holds
\* the requested addresses it found in the cache with their age at that
\* time, resolved the addresses its lookups filed, overlapped whether
\* another call was pending while it was
Call(pc, addresses, mapping, remaining, still, served, resolved, overlapped) ==
  [pc |-> pc, addresses |-> addresses, mapping |-> mapping,
   remaining |-> remaining, still |-> still, served |-> served,
   resolved |-> resolved, overlapped |-> overlapped]

IdleCall == Call("idle", <<>>, EmptyMap, <<>>, <<>>, {}, {}, FALSE)

Pending(call) == call.pc \in {"proxy", "direct", "singles"}

Returned(call) == call.pc \in {"fulfilled", "rejected"}

Served(address, age) == [address |-> address, age |-> age]

SeqToSet(s) == {s[k] : k \in DOMAIN s}

\* the ages of the requested addresses that the cache read answers
ServedFrom(addresses, mapping, resolvedAt, now) ==
  {Served(a, now - resolvedAt[a]) :
     a \in SeqToSet(UniqueLower(addresses, {})) \cap DOMAIN mapping}

\* the resolution times after the lookups of a call filed new addresses
ResolvedNow(resolvedAt, before, after, now) ==
  [a \in DOMAIN resolvedAt \cup (DOMAIN after \ DOMAIN before) |->
     IF a \in DOMAIN after \ DOMAIN before THEN now ELSE resolvedAt[a]]

CallsInitial ==
  /\ kNow = CallsEpoch
  /\ kPasses = 0
  /\ kKey \in BOOLEAN
  /\ \E cached \in BOOLEAN :
       /\ kStored = IF cached
                      THEN CachedProfiles("object", CallsEpoch,
                                          MapSet(EmptyMap, "0xbb", Profile("bobby", Undefined)))
                      ELSE CachedProfiles("absent", 0, EmptyMap)
       /\ kResolvedAt = IF cached THEN MapSet(EmptyMap, "0xbb", CallsEpoch) ELSE EmptyMap
  /\ kCalls = [c \in 1..MaxCalls |-> IdleCall]
  /\ kWriteFailed = FALSE

\* the call returns its mapping, after writeProfileCache when write
CallFulfils(c, mapping, resolved, write) ==
  /\ kCalls' = [kCalls EXCEPT ![c].pc = "fulfilled", ![c].mapping = mapping,
                              ![c].resolved = resolved, ![c].still = <<>>]
  /\ IF write
       THEN \E fails \in BOOLEAN :
              /\ kStored' = writeProfileCache(kStored, mapping, kNow, fails)
              /\ kWriteFailed' = (kWriteFailed \/ fails)
       ELSE UNCHANGED <<kStored, kWriteFailed>>

\* resolveNeynarProfiles(addresses) up to its first await (lines 265-306)
CallStarts(c) ==
  /\ kCalls[c].pc = "idle"
  /\ \A b \in 1..(c - 1) : kCalls[b].pc # "idle"
  /\ \E addresses \in CallAddressLists :
       LET s == StartStep(addresses, kStored, kNow)
           others == {b \in 1..MaxCalls : Pending(kCalls[b])}
           served == ServedFrom(addresses, s.mapping, kResolvedAt, kNow)
       IN IF s.next = "return"
            THEN kCalls' = [kCalls EXCEPT
                   ![c] = Call("fulfilled", addresses, s.mapping, <<>>, <<>>, served, {}, FALSE)]
            ELSE kCalls' = [b \in 1..MaxCalls |->
                   IF b = c
                     THEN Call("proxy", addresses, s.mapping, s.remaining, <<>>,
                               served, {}, others # {})
                   ELSE IF b \in others THEN [kCalls[b] EXCEPT !.overlapped = TRUE]
                   ELSE kCalls[b]]
  /\ UNCHANGED <<kStored, kNow, kPasses, kKey, kResolvedAt, kWriteFailed>>
  /\ UNCHANGED notCalls

\* the proxy lookups of a call settle (lines 293-349)
CallProxySettles(c) ==
  /\ kCalls[c].pc = "proxy"
  /\ LET call == kCalls[c]
         batches == chunk(call.remaining, BatchSize(Undefined))
     IN \E outcomes \in [DOMAIN batches -> CallOutcomes] :
          LET s == ProxyStep(call.mapping, call.remaining, kKey, Undefined, outcomes)
              resolved == DOMAIN s.mapping \ DOMAIN call.mapping
          IN /\ kResolvedAt' = ResolvedNow(kResolvedAt, call.mapping, s.mapping, kNow)
             /\ IF s.next = "direct"
                  THEN /\ kCalls' = [kCalls EXCEPT ![c].pc = "direct"]
                       /\ UNCHANGED <<kStored, kWriteFailed>>
                  ELSE CallFulfils(c, s.mapping, resolved, s.next = "returnWrite")
  /\ UNCHANGED <<kNow, kPasses, kKey>>
  /\ UNCHANGED notCalls

\* the direct lookups of a call settle (lines 359-406)
CallDirectSettles(c) ==
  /\ kCalls[c].pc = "direct"
  /\ LET call == kCalls[c]
         batches == chunk(call.remaining, BatchSize(Undefined))
     IN \E outcomes \in [DOMAIN batches -> CallOutcomes] :
          LET s == DirectStep(call.mapping, call.remaining, Undefined, outcomes)
              resolved == DOMAIN s.mapping \ DOMAIN call.mapping
          IN /\ kResolvedAt' = ResolvedNow(kResolvedAt, call.mapping, s.mapping, kNow)
             /\ IF s.next = "reject"
                  THEN /\ kCalls' = [kCalls EXCEPT ![c].pc = "rejected"]
                       /\ UNCHANGED <<kStored, kWriteFailed>>
                ELSE IF s.next = "returnWrite"
                  THEN CallFulfils(c, s.mapping, resolved, TRUE)
                ELSE /\ kCalls' = [kCalls EXCEPT ![c].pc = "singles",
                                                 ![c].mapping = s.mapping,
                                                 ![c].resolved = resolved,
                                                 ![c].still = s.still]
                     /\ UNCHANGED <<kStored, kWriteFailed>>
  /\ UNCHANGED <<kNow, kPasses, kKey>>
  /\ UNCHANGED notCalls

\* one turn of the loop over stillMissing of a call (lines 407-421)
CallSingleLookup(c) ==
  /\ kCalls[c].pc = "singles"
  /\ LET call == kCalls[c]
         address == Head(call.still)
     IN \E outcome \in CallOutcomes :
          LET mapping == SingleStep(call.mapping, address, outcome)
              resolved == call.resolved \cup (DOMAIN mapping \ DOMAIN call.mapping)
          IN /\ kResolvedAt' = ResolvedNow(kResolvedAt, call.mapping, mapping, kNow)
             /\ IF Tail(call.still) = <<>>
                  THEN CallFulfils(c, mapping, resolved, TRUE)
                  ELSE /\ kCalls' = [kCalls EXCEPT ![c].mapping = mapping,
                                                   ![c].resolved = resolved,
                                                   ![c].still = Tail(call.still)]
                       /\ UNCHANGED <<kStored, kWriteFailed>>
  /\ UNCHANGED <<kNow, kPasses, kKey>>
  /\ UNCHANGED notCalls

\* the clock advances
TimePasses ==
  /\ kPasses < MaxPasses
  /\ kPasses' = kPasses + 1
  /\ kNow' = kNow + HalfTtl
  /\ UNCHANGED <<kStored, kKey, kCalls, kResolvedAt, kWriteFailed>>
  /\ UNCHANGED notCalls

CallsNext ==
  \/ \E c \in 1..MaxCalls : CallStarts(c)
  \/ \E c \in 1..MaxCalls : CallProxySettles(c)
  \/ \E c \in 1..MaxCalls : CallDirectSettles(c)
  \/ \E c \in 1..MaxCalls : CallSingleLookup(c)
  \/ TimePasses

CallsInit ==
  /\ CallsInitial
  /\ MergeIdle /\ EqIdle /\ RateIdle /\ GraphIdle /\ CacheIdle /\ AppIdle /\ IdentityIdle

SpecCalls == CallsInit /\ [][CallsNext]_vars

\* C23: a requested address that resolveNeynarProfiles answers from the
\* persisted cache, without looking it up, was resolved remotely at most
\* FARCASTER_CACHE_TTL before the call; an address resolved longer ago is
\* among the addresses the call looks up.
C23_CacheTtl ==
  \A c \in DOMAIN kCalls :
    \A s \in kCalls[c].served : s.age <= FARCASTER_CACHE_TTL

\* C26: once two calls that overlapped in time have both returned, and no
\* write of the cache has failed, the persisted cache holds every profile
\* that either of them resolved.
C26_OverlappingCallsKeepProfiles ==
  (/\ \A c \in DOMAIN kCalls : kCalls[c].pc = "fulfilled"
   /\ \E c \in DOMAIN kCalls : kCalls[c].overlapped
   /\ ~kWriteFailed
   /\ kPasses = 0)
  => \A c \in DOMAIN kCalls :
       \A a \in kCalls[c].resolved :
         /\ kStored.kind = "object"
         /\ a \in DOMAIN kStored.profiles
         /\ kStored.profiles[a] = kCalls[c].mapping[a]

====
